---- MODULE Spec2Model ----
(***************************************************************************)
(* Discord interactions webhook (app/api/discord/interactions/route.ts).   *)
(*                                                                         *)
(* The repository holds four revisions of the handler:                     *)
(*   "route"    src/app/api/discord/interactions/route.ts  (awaits Phase 2)*)
(*   "part_000" src/unnamed/part_000 l.164-585  (detached async IIFE)      *)
(*   "part_001" src/unnamed/part_001            (queueMicrotask)           *)
(*   "part_002" src/unnamed/part_002 l.1-443    (queueMicrotask, older)    *)
(* The variable rev fixes which one a behaviour runs.                      *)
(*                                                                         *)
(* Strings are sequences of symbols.  A symbol is one character ("A", ":", *)
(* "%", a digit) or an atomic word of unreserved characters that starts    *)
(* with a non-hexadecimal letter ("set_status", "completed", ...).         *)
(***************************************************************************)
EXTENDS Integers, Sequences, FiniteSets, TLC

VARIABLES rev, config, DEBUG_TO_DISCORD, live, req, pc, parsed, resp, unit, log

\* the risk scan (app/api/cron/risk-scan/route.ts, two revisions in one
\* file) and the GitHub webhook (app/api/github/webhook/route.ts, the head
\* of part_000) with the two tables they share:
\*   env            the deployment: revision of the risk scan, the service
\*                  bot token, VERCEL, GITHUB_WEBHOOK_SECRET
\*   projects_table the rows of table projects
\*   activity_logs  the rows of table activity_logs, in insertion order
\*   clock          Date.now(), in days
\*   scan           the risk-scan requests being handled
\*   hook           the webhook request being handled
VARIABLES env, projects_table, activity_logs, clock, scan, hook

interactionVars == <<rev, config, DEBUG_TO_DISCORD, live, req, pc, parsed, resp, unit, log>>

activityVars == <<env, projects_table, activity_logs, clock, scan, hook>>

vars == <<interactionVars, activityVars>>

(***************************************************************************)
(* Bounds                                                                  *)
(***************************************************************************)
\* longest project name (in characters) a request or a project list carries
MaxNameLen == 1
\* longest list of assigned projects the backend returns, all lists built
MaxProjects == 1
\* how far beyond the select's limit the long lists of assigned projects go
ExtraProjects == 1
\* how many days may pass while a risk scan is under way
MaxTicks == 1

(***************************************************************************)
(* Strings                                                                 *)
(***************************************************************************)
\* JavaScript undefined, kept apart from every string (the empty one included)
Undefined == <<"<undefined>">>
\* the URIError decodeURIComponent raises, as a value
URIError == <<"<URIError>">>

\* JavaScript truthiness of a string | undefined
Truthy(s) == s # Undefined /\ s # <<>>

\* a || b on strings
OrElse(a, b) == IF Truthy(a) THEN a ELSE b

StartsWith(s, p) == Len(s) >= Len(p) /\ SubSeq(s, 1, Len(p)) = p

RECURSIVE SplitFrom(_, _, _, _)
\* String.prototype.split(sep): cur is the piece being collected
SplitFrom(s, sep, k, cur) ==
  IF k > Len(s) THEN <<cur>>
  ELSE IF k + Len(sep) - 1 <= Len(s) /\ SubSeq(s, k, k + Len(sep) - 1) = sep
       THEN <<cur>> \o SplitFrom(s, sep, k + Len(sep), <<>>)
       ELSE SplitFrom(s, sep, k + 1, Append(cur, s[k]))

Split(s, sep) == SplitFrom(s, sep, 1, <<>>)

\* parts[n] of an array: undefined past its end
At(parts, n) == IF n <= Len(parts) THEN parts[n] ELSE Undefined

HexDigits == {"2", "3", "5", "A"}

\* the character of the byte written %h1h2, for the bytes below 0x80 that the
\* hexadecimal digits of the alphabet can spell; bytes 0xA2..0xAA are lone
\* UTF-8 continuation bytes and have no character
HexPairChar(h1, h2) ==
  CASE h1 = "2" /\ h2 = "2" -> "\""
    [] h1 = "2" /\ h2 = "3" -> "#"
    [] h1 = "2" /\ h2 = "5" -> "%"
    [] h1 = "2" /\ h2 = "A" -> "*"
    [] h1 = "3" /\ h2 = "2" -> "2"
    [] h1 = "3" /\ h2 = "3" -> "3"
    [] h1 = "3" /\ h2 = "5" -> "5"
    [] h1 = "3" /\ h2 = "A" -> ":"
    [] h1 = "5" /\ h2 = "2" -> "R"
    [] h1 = "5" /\ h2 = "3" -> "S"
    [] h1 = "5" /\ h2 = "5" -> "U"
    [] h1 = "5" /\ h2 = "A" -> "Z"
    [] OTHER -> "<invalid>"

\* encodeURIComponent of one character
EncodeChar(c) ==
  CASE c = ":" -> <<"%", "3", "A">>
    [] c = "%" -> <<"%", "2", "5">>
    [] c = "\"" -> <<"%", "2", "2">>
    [] c = "#" -> <<"%", "2", "3">>
    [] OTHER -> <<c>>

RECURSIVE encodeURIComponent(_)
encodeURIComponent(s) ==
  IF s = <<>> THEN <<>> ELSE EncodeChar(Head(s)) \o encodeURIComponent(Tail(s))

RECURSIVE DecodeFrom(_, _)
\* decodeURIComponent from position k; URIError on a malformed escape
DecodeFrom(s, k) ==
  IF k > Len(s) THEN <<>>
  ELSE IF s[k] # "%"
       THEN LET rest == DecodeFrom(s, k + 1)
            IN  IF rest = URIError THEN URIError ELSE <<s[k]>> \o rest
       ELSE IF k + 2 > Len(s) \/ s[k + 1] \notin HexDigits \/ s[k + 2] \notin HexDigits
                 \/ HexPairChar(s[k + 1], s[k + 2]) = "<invalid>"
            THEN URIError
            ELSE LET rest == DecodeFrom(s, k + 3)
                 IN  IF rest = URIError THEN URIError
                     ELSE <<HexPairChar(s[k + 1], s[k + 2])>> \o rest

decodeURIComponent(s) == DecodeFrom(s, 1)

(***************************************************************************)
(* Constants of the protocol                                               *)
(***************************************************************************)
PING == 1
APPLICATION_COMMAND == 2
MESSAGE_COMPONENT == 3
APPLICATION_COMMAND_AUTOCOMPLETE == 4
MODAL_SUBMIT == 5

PONG == 1
CHANNEL_MESSAGE_WITH_SOURCE == 4
DEFERRED_CHANNEL_MESSAGE_WITH_SOURCE == 5
DEFERRED_UPDATE_MESSAGE == 6
UPDATE_MESSAGE == 7
MODAL == 9

\* 1 << 6
EPHEMERAL == 64

Revisions == {"route", "part_000", "part_001", "part_002"}

\* interaction ids issued by the platform; the token of an interaction is
\* the one-symbol string made of its id
Ids == {"i1", "i2"}

(***************************************************************************)
(* Configuration (configs/config, read at call time)                       *)
(***************************************************************************)
\* the application id of the configuration and the one an interaction carries
ConfigAppId == <<"appC">>
BodyAppId == <<"appB">>

\* every setting is present or absent; without the public key every request
\* ends at the signature check, so the other settings are then left present
Configs ==
  { [discordPublicKey |-> TRUE, serviceBotToken |-> t, discordAppId |-> a, backendUrl |-> b] :
      t \in BOOLEAN, a \in {Undefined, ConfigAppId}, b \in BOOLEAN }
  \cup { [discordPublicKey |-> FALSE, serviceBotToken |-> TRUE,
          discordAppId |-> ConfigAppId, backendUrl |-> TRUE] }

(***************************************************************************)
(* WizardStateCodec                                                        *)
(***************************************************************************)
Project == <<"Project">>

optionValue(id, name) == id \o <<":", ":">> \o encodeURIComponent(name)

\* { id, name }; id null is Undefined; name URIError when decoding throws
parseOptionValue(v) ==
  IF ~Truthy(v) THEN [id |-> Undefined, name |-> Project]
  ELSE LET parts == Split(v, <<":", ":">>)
           id == At(parts, 1)
           enc == At(parts, 2)
       IN  [id |-> IF Truthy(id) THEN id ELSE Undefined,
            name |-> IF Truthy(enc) THEN decodeURIComponent(enc) ELSE Project]

\* `set_status:${id}:${encodeURIComponent(name)}`
StatusCustomId(id, name) == <<"set_status", ":">> \o id \o <<":">> \o encodeURIComponent(name)

\* custom_id of buildProgressModal
ModalCustomId(id, name) == <<"progress_modal", ":">> \o id \o <<":">> \o encodeURIComponent(name)

(***************************************************************************)
(* ResponseBuilder                                                         *)
(***************************************************************************)
NoComponent == [kind |-> "none", custom_id |-> <<>>, options |-> <<>>]

\* the message texts, by template and arguments
Msg(t, args) == [t |-> t, args |-> args]
NoContent == Msg("none", <<>>)

\* the platform's limit of options in one select
MaxOptions == 25

\* buildProjectSelect without the slice
buildProjectSelectUncapped(customId, projects) ==
  [kind |-> "project_select", custom_id |-> customId,
   options |-> [k \in 1..Len(projects) |-> optionValue(projects[k].id, projects[k].name)]]

buildProjectSelect(customId, projects) ==
  [kind |-> "project_select", custom_id |-> customId,
   options |-> [k \in 1..(IF Len(projects) < MaxOptions THEN Len(projects) ELSE MaxOptions) |->
                  optionValue(projects[k].id, projects[k].name)]]

buildStatusSelect(customId) ==
  [kind |-> "status_select", custom_id |-> customId, options |-> << <<"completed">> >>]

buildProgressModal(projectId, projectName) ==
  [kind |-> "modal", custom_id |-> ModalCustomId(projectId, projectName), options |-> <<>>]

\* NextResponse.json({ type, data: { content, flags, components } })
Json(type, content, flags, component) ==
  [status |-> 200, type |-> type, content |-> content, flags |-> flags, component |-> component]

\* NextResponse.json({ type })
JsonType(type) == Json(type, NoContent, 0, NoComponent)

\* new NextResponse("Bad signature", { status: 401 })
BadSignature == [status |-> 401, type |-> 0, content |-> NoContent, flags |-> 0, component |-> NoComponent]

NoResponse == [status |-> 0, type |-> 0, content |-> NoContent, flags |-> 0, component |-> NoComponent]

\* a terminal message without the flags field
EphemeralWithoutFlag(text) == Json(CHANNEL_MESSAGE_WITH_SOURCE, text, 0, NoComponent)

Ephemeral(text) == Json(CHANNEL_MESSAGE_WITH_SOURCE, text, EPHEMERAL, NoComponent)

(***************************************************************************)
(* Requests                                                                *)
(***************************************************************************)
RECURSIVE StringsUpTo(_, _)
\* the strings of at most n characters over an alphabet
StringsUpTo(chars, n) ==
  IF n = 0 THEN {<<>>}
  ELSE LET shorter == StringsUpTo(chars, n - 1)
       IN  shorter \cup {Append(w, c) : w \in shorter, c \in chars}

\* project names: a plain character and the two delimiter characters
NameChars == {"A", ":", "%"}
Names == StringsUpTo(NameChars, MaxNameLen)

ProjectIds == {<<"2">>}

\* the signing keys: the platform's, whose public half is the configured
\* key, and some other key
PlatformKey == "platform"
OtherKey == "other"

\* a detached signature is determined by the signing key and the signed
\* bytes, the timestamp followed by the body; the timestamps sent have one
\* length and a body starts with its brace, so the pair stands for the
\* concatenation; the header value "" is <<>>
Sign(key, ts, body) == <<key, ts, body>>

\* the signature the platform computes over timestamp || body with its key
GoodSig(ts, body) == Sign(PlatformKey, ts, body)
ForgedSig(ts, body) == Sign(OtherKey, ts, body)

\* the body the platform signed when the body received was altered on the
\* way: they differ in one character of the invoker's id
Original(b) == [b EXCEPT !.member = IF @ = <<"m">> THEN <<"n">> ELSE <<"m">>]

\* header pairs for body b: x-signature-ed25519 and x-signature-timestamp
\* ("" when absent): signed by the platform, signed with another key, one
\* header missing, and, for the bodies that carry token, application id and
\* member, the platform's signature of another timestamp or of another body
Headers(b) ==
  { [sig |-> GoodSig(<<"t">>, b), ts |-> <<"t">>], [sig |-> ForgedSig(<<"t">>, b), ts |-> <<"t">>],
    [sig |-> <<>>, ts |-> <<"t">>], [sig |-> GoodSig(<<>>, b), ts |-> <<>>] }
  \cup IF Truthy(b.token) /\ Truthy(b.application_id) /\ Truthy(b.member)
       THEN { [sig |-> GoodSig(<<"t">>, b), ts |-> <<"u">>],
              [sig |-> GoodSig(<<"t">>, Original(b)), ts |-> <<"t">>] }
       ELSE {}

\* invoker identity: member.user.id and user.id
Invokers ==
  { [member |-> <<"m">>, user |-> <<"u">>], [member |-> Undefined, user |-> <<"u">>],
    [member |-> Undefined, user |-> Undefined] }

DefaultInvoker == [member |-> <<"m">>, user |-> Undefined]

\* the token and the application id the body carries
Credentials(i) ==
  { [token |-> t, application_id |-> a] : t \in {Undefined, <<i>>}, a \in {Undefined, BodyAppId} }

DefaultCredentials(i) == [token |-> <<i>>, application_id |-> BodyAppId]

Body(type, name, custom_id, value, title, description, cred, who) ==
  [type |-> type, name |-> name, custom_id |-> custom_id, value |-> value,
   title |-> title, description |-> description,
   token |-> cred.token, application_id |-> cred.application_id,
   member |-> who.member, user |-> who.user]

\* identifiers of the status picker: built by the wizard for a name or for
\* the default name, and cut short or with a name that is not valid
\* percent-encoding
StatusCustomIds ==
  { StatusCustomId(id, n) : id \in ProjectIds, n \in Names }
  \cup { StatusCustomId(id, Project) : id \in ProjectIds }
  \cup { <<"set_status", ":">>, <<"set_status", ":", "2">>, <<"set_status", ":", "2", ":", "%">> }

ModalCustomIds ==
  { ModalCustomId(id, n) : id \in ProjectIds, n \in Names }
  \cup { ModalCustomId(id, Project) : id \in ProjectIds }
  \cup { <<"progress_modal", ":">>, <<"progress_modal", ":", "2">>,
         <<"progress_modal", ":", "2", ":", "%">> }

\* values[0] of a project picker: built by the wizard, absent, without id,
\* without separator, with a name that is not valid percent-encoding
OptionValues ==
  { optionValue(id, n) : id \in ProjectIds, n \in Names }
  \cup { Undefined, <<":", ":", "A">>, <<"2">>, <<"2", ":", ":", "%">> }

\* values[0] of a status picker
StatusValues == { Undefined, <<"completed">>, <<"pending">>, <<"2", ":", ":", "%">> }

\* the two modal fields (title_input, desc_input), each a string or absent
ModalFields ==
  { [title |-> <<"T">>, description |-> <<"D">>], [title |-> <<"T">>, description |-> <<>>],
    [title |-> <<"T">>, description |-> Undefined], [title |-> Undefined, description |-> Undefined] }

Bodies(i) ==
  { Body(t, Undefined, Undefined, Undefined, Undefined, Undefined, DefaultCredentials(i), DefaultInvoker) :
      t \in {PING, APPLICATION_COMMAND_AUTOCOMPLETE, 0} }
  \cup { Body(APPLICATION_COMMAND, n, Undefined, Undefined, Undefined, Undefined, DefaultCredentials(i), w) :
           n \in {Undefined, <<"progress-update">>, <<"milestone-status">>, <<"other-command">>},
           w \in Invokers }
  \cup { Body(MESSAGE_COMPONENT, Undefined, c, v, Undefined, Undefined, DefaultCredentials(i), DefaultInvoker) :
           c \in {Undefined, <<"pick_project_for_progress">>, <<"pick_project_for_milestone">>,
                  <<"other_action">>},
           v \in OptionValues }
  \cup { Body(MESSAGE_COMPONENT, Undefined, c, v, Undefined, Undefined, k, w) :
           c \in StatusCustomIds, v \in StatusValues, k \in Credentials(i), w \in Invokers }
  \cup { Body(MODAL_SUBMIT, Undefined, c, Undefined, Undefined, Undefined, DefaultCredentials(i), DefaultInvoker) :
           c \in {Undefined, <<"other_modal">>} }
  \cup { Body(MODAL_SUBMIT, Undefined, c, Undefined, f.title, f.description, k, w) :
           c \in ModalCustomIds, f \in ModalFields, k \in Credentials(i), w \in Invokers }

\* a request: its two signature headers and its (JSON) body
Requests(i) ==
  UNION { { [sig |-> h.sig, ts |-> h.ts, body |-> b] : h \in Headers(b) } : b \in Bodies(i) }

NoRequest == [sig |-> <<>>, ts |-> <<>>,
              body |-> Body(0, Undefined, Undefined, Undefined, Undefined, Undefined,
                            [token |-> Undefined, application_id |-> Undefined],
                            [member |-> Undefined, user |-> Undefined])]

\* lists of assigned projects the backend may answer with
RECURSIVE ListsUpTo(_, _)
ListsUpTo(S, n) ==
  IF n = 0 THEN {<<>>}
  ELSE LET shorter == ListsUpTo(S, n - 1)
       IN  shorter \cup {Append(l, x) : l \in shorter, x \in S}

ProjectLists == ListsUpTo({ [id |-> id, name |-> n] : id \in ProjectIds, n \in Names }, MaxProjects)

\* a list of n assigned projects whose neighbours differ
LongList(n) ==
  [k \in 1..n |-> [id |-> <<"2">>, name |-> IF k % 2 = 1 THEN <<"A">> ELSE <<"%">>]]

\* the lists at and beyond the select's limit
LongProjectLists == { LongList(MaxOptions + d) : d \in 0..ExtraProjects }

(***************************************************************************)
(* SignatureVerifier                                                       *)
(***************************************************************************)
\* nacl.sign.detached.verify with the timestamp left out of the message
DetachedVerifyBodyOnly(r) ==
  \E ts \in {<<>>, <<"t">>, <<"u">>} : r.sig = GoodSig(ts, r.body)

\* nacl.sign.detached.verify(ts + rawBody, sig, key): the platform's
\* signature of exactly this timestamp and body
DetachedVerify(r) == r.sig = GoodSig(r.ts, r.body)

\* verifySignature without the test for missing headers or key
verifySignatureUnguarded(r) == DetachedVerify(r)

verifySignature(r) ==
  IF r.sig = <<>> \/ r.ts = <<>> \/ ~config.discordPublicKey THEN FALSE
  ELSE DetachedVerify(r)

(***************************************************************************)
(* InteractionDispatcher: the synchronous part of POST after the signature *)
(* check, up to its first await, return or throw                           *)
(***************************************************************************)
\* body?.member?.user?.id || body?.user?.id || ""
\* UserId preferring user.id to member.user.id
UserIdUserFirst(b) == OrElse(b.user, OrElse(b.member, <<>>))

UserId(b) == OrElse(b.member, OrElse(b.user, <<>>))

\* the text of an error message: err.message where the revision echoes it
\* (always in part_001 and part_002, under DEBUG_TO_DISCORD in the other
\* two), a fixed text otherwise
ErrorText(t, err) ==
  IF rev \in {"part_001", "part_002"} \/ DEBUG_TO_DISCORD THEN Msg(t, <<err>>) ELSE Msg(t, <<>>)

NoChangeText(choice) == Msg("no_changes_were_made", <<choice>>)

Respond(r) == [k |-> "respond", resp |-> r]
Throw(e) == [k |-> "throw", err |-> e]
Projects(tag) == [k |-> "projects", tag |-> tag]
Deferred(flow, ack, projectId, projectName, choice, title, description) ==
  [k |-> "deferred", flow |-> flow, ack |-> ack, projectId |-> projectId, projectName |-> projectName,
   choice |-> choice, title |-> title, description |-> description]

\* RouteCommand with the two transition tags exchanged
RouteCommandSwapped(b) ==
  IF b.name = <<"progress-update">> THEN Projects(<<"pick_project_for_milestone">>)
  ELSE IF b.name = <<"milestone-status">> THEN Projects(<<"pick_project_for_progress">>)
  ELSE Respond(Ephemeral(Msg("unknown_command", <<>>)))

\* RouteCommand loading the projects for every command name
RouteCommandAnyName(b) ==
  IF b.name = <<"milestone-status">> THEN Projects(<<"pick_project_for_milestone">>)
  ELSE Projects(<<"pick_project_for_progress">>)

\* 2) APPLICATION COMMANDS
RouteCommand(b) ==
  IF b.name = <<"progress-update">> THEN Projects(<<"pick_project_for_progress">>)
  ELSE IF b.name = <<"milestone-status">> THEN Projects(<<"pick_project_for_milestone">>)
  ELSE Respond(Ephemeral(Msg("unknown_command", <<>>)))

\* Status chosen
RouteStatus(b) ==
  LET parts == Split(b.custom_id, <<":">>)
      projectId == At(parts, 2)
      projectName == decodeURIComponent(OrElse(At(parts, 3), Project))
      choice == OrElse(b.value, <<>>)
  IN  IF projectName = URIError THEN Throw("URIError")
      ELSE IF rev \in {"route", "part_002"} /\ choice # <<"completed">>
           THEN Respond(Json(UPDATE_MESSAGE, NoChangeText(choice), EPHEMERAL, NoComponent))
           ELSE Deferred(IF choice # <<"completed">> THEN "no_change" ELSE "milestone",
                         DEFERRED_UPDATE_MESSAGE, projectId, projectName, choice, <<>>, <<>>)

\* 3) MESSAGE COMPONENTS
RouteComponent(b) ==
  LET customId == b.custom_id
      picked == parseOptionValue(b.value)
  IN  IF picked.name = URIError THEN Throw("URIError")
      ELSE IF customId = <<"pick_project_for_progress">>
           THEN IF ~Truthy(picked.id)
                THEN Respond(Ephemeral(Msg("no_project_selected", <<>>)))
                ELSE Respond(Json(MODAL, NoContent, 0, buildProgressModal(picked.id, picked.name)))
      ELSE IF customId = <<"pick_project_for_milestone">>
           THEN IF ~Truthy(picked.id)
                THEN Respond(Ephemeral(Msg("no_project_selected", <<>>)))
                ELSE Respond(Json(UPDATE_MESSAGE, Msg("pick_a_status", <<>>), EPHEMERAL,
                                  buildStatusSelect(StatusCustomId(picked.id, picked.name))))
      ELSE IF customId = Undefined THEN Throw("TypeError")
      ELSE IF StartsWith(customId, <<"set_status", ":">>) THEN RouteStatus(b)
      ELSE Respond(Ephemeral(Msg("unknown_action", <<>>)))

\* RouteModal acknowledging with the deferred kind of component actions
RouteModalUpdateAck(b) ==
  LET customId == b.custom_id
  IN  IF customId = Undefined THEN Throw("TypeError")
      ELSE IF StartsWith(customId, <<"progress_modal", ":">>)
           THEN LET parts == Split(customId, <<":">>)
                    projectId == At(parts, 2)
                    projectName == decodeURIComponent(OrElse(At(parts, 3), Project))
                    title == OrElse(b.title, <<>>)
                    description == OrElse(b.description, <<>>)
                IN  IF projectName = URIError THEN Throw("URIError")
                    ELSE Deferred("progress", DEFERRED_UPDATE_MESSAGE,
                                  projectId, projectName, <<>>, title, description)
           ELSE Respond(Ephemeral(Msg("unknown_modal", <<>>)))

\* 4) MODAL SUBMIT
RouteModal(b) ==
  LET customId == b.custom_id
  IN  IF customId = Undefined THEN Throw("TypeError")
      ELSE IF StartsWith(customId, <<"progress_modal", ":">>)
           THEN LET parts == Split(customId, <<":">>)
                    projectId == At(parts, 2)
                    projectName == decodeURIComponent(OrElse(At(parts, 3), Project))
                    title == OrElse(b.title, <<>>)
                    description == OrElse(b.description, <<>>)
                IN  IF projectName = URIError THEN Throw("URIError")
                    ELSE Deferred("progress", DEFERRED_CHANNEL_MESSAGE_WITH_SOURCE,
                                  projectId, projectName, <<>>, title, description)
           ELSE Respond(Ephemeral(Msg("unknown_modal", <<>>)))

\* Route without the PING branch
RouteWithoutPing(b) ==
  IF b.type = APPLICATION_COMMAND THEN RouteCommand(b)
  ELSE IF b.type = MESSAGE_COMPONENT THEN RouteComponent(b)
  ELSE IF b.type = MODAL_SUBMIT THEN RouteModal(b)
  ELSE Respond(Ephemeral(Msg("unsupported_interaction", <<>>)))

\* POST from JSON.parse(raw) on
Route(b) ==
  IF b.type = PING THEN Respond(JsonType(PONG))
  ELSE IF b.type = APPLICATION_COMMAND THEN RouteCommand(b)
  ELSE IF b.type = MESSAGE_COMPONENT THEN RouteComponent(b)
  ELSE IF b.type = MODAL_SUBMIT THEN RouteModal(b)
  ELSE Respond(Ephemeral(Msg("unsupported_interaction", <<>>)))

(***************************************************************************)
(* Outbound calls.  log[i] records, in order, every BackendGateway         *)
(* operation entered ("call") and every HTTP request sent ("http") while   *)
(* handling interaction i; acked tells whether the handler had already     *)
(* returned its Response when the entry was made, ackedAtEnd whether it    *)
(* had when the request settled.  One request at most is pending.          *)
(***************************************************************************)
Event(api, ev) ==
  [api |-> api, ev |-> ev, base |-> <<>>, projectId |-> <<>>, title |-> <<>>, description |-> <<>>,
   userId |-> <<>>, appId |-> <<>>, token |-> <<>>, content |-> NoContent, flags |-> 0,
   acked |-> FALSE, result |-> IF ev = "http" THEN "pending" ELSE "n/a", ackedAtEnd |-> FALSE,
   data |-> "none", projects |-> <<>>]

\* getBaseUrl(req); part_002 reads config.backendUrl itself
getBaseUrl == IF config.backendUrl THEN <<"backend">> ELSE <<"self">>

\* the last entry of a log settles with an outcome
Settle(lg, outcome, ak) ==
  [lg EXCEPT ![Len(lg)] = [@ EXCEPT !.result = outcome, !.ackedAtEnd = ak]]

FetchOutcomes == {"ok", "status", "network"}

NoDeferred == Deferred("none", 0, <<>>, <<>>, <<>>, <<>>, <<>>)
NoUnit == [pc |-> "none", k |-> 0, d |-> NoDeferred, wrote |-> "none"]

(***************************************************************************)
(* Completion calls                                                        *)
(***************************************************************************)
Call(api, content, flags) == [api |-> api, content |-> content, flags |-> flags]

MilestoneAnnounce(d, uid) == Msg("milestone_marked_completed_by", <<d.projectName, uid>>)
MilestoneDone(d) == Msg("done_milestone_marked_completed", <<d.projectName>>)
ProgressAnnounce(d, uid) ==
  Msg("recent_update_from", <<d.projectName, uid, d.title, OrElse(d.description, <<"_none_">>)>>)

\* the completion calls of the try block after the backend call, in order
TrySeq(d, uid) ==
  IF d.flow = "no_change" THEN << Call("edit", NoChangeText(d.choice), EPHEMERAL) >>
  ELSE IF d.flow = "milestone"
  THEN CASE rev \in {"route", "part_002"} ->
              << Call("followup", MilestoneAnnounce(d, uid), 0),
                 Call("followup", MilestoneDone(d), EPHEMERAL) >>
         [] rev = "part_000" -> << Call("edit", MilestoneAnnounce(d, uid), EPHEMERAL) >>
         [] rev = "part_001" ->
              << Call("followup", MilestoneAnnounce(d, uid), 0),
                 Call("edit", MilestoneDone(d), EPHEMERAL) >>
  ELSE CASE rev \in {"route", "part_002"} ->
              << Call("followup", ProgressAnnounce(d, uid), 0),
                 Call("followup", Msg("posted_a_recent_update_to", <<d.projectName>>), EPHEMERAL) >>
         [] rev = "part_000" -> << Call("edit", ProgressAnnounce(d, uid), 0) >>
         [] rev = "part_001" ->
              << Call("followup", ProgressAnnounce(d, uid), 0),
                 Call("edit", Msg("update_posted", <<>>), EPHEMERAL) >>

\* the completion call of the catch block
CatchCall(d, err) ==
  Call(IF rev \in {"route", "part_002"} THEN "followup" ELSE "edit",
       ErrorText(IF d.flow = "progress" THEN "failed_to_post_update" ELSE "failed_to_update_milestone", err),
       EPHEMERAL)

\* sendFollowup of part_002 throws before any request when no application id
\* is configured
PreThrows == rev = "part_002" /\ ~Truthy(config.discordAppId)

\* the application id a completion call is addressed with
AppIdFor(b) ==
  IF rev = "part_002" THEN config.discordAppId ELSE OrElse(b.application_id, config.discordAppId)

\* sendFollowup / editOriginal send a request (part_002 never skips)
Addressable(b) == rev = "part_002" \/ (Truthy(AppIdFor(b)) /\ Truthy(b.token))

\* the promise of the completion function rejects on this fetch outcome
Rejects(api, outcome) ==
  CASE rev = "route" -> FALSE
    [] rev = "part_000" -> outcome # "ok"
    [] rev = "part_001" -> api = "followup" /\ outcome # "ok"
    [] rev = "part_002" -> outcome = "network"

CompletionEvent(c, b, ak) ==
  [Event(c.api, "http") EXCEPT !.appId = AppIdFor(b), !.token = b.token,
                               !.content = c.content, !.flags = c.flags, !.acked = ak]

\* catch block: one completion call reporting err
RunCatch(d, err, b, lg, ak, wrote) ==
  IF PreThrows THEN [unit |-> [pc |-> "unhandled", k |-> 0, d |-> d, wrote |-> wrote], log |-> lg]
  ELSE IF ~Addressable(b) THEN [unit |-> [pc |-> "done", k |-> 0, d |-> d, wrote |-> wrote], log |-> lg]
  ELSE [unit |-> [pc |-> "catch", k |-> 0, d |-> d, wrote |-> wrote],
        log |-> Append(lg, CompletionEvent(CatchCall(d, err), b, ak))]

RECURSIVE RunTry(_, _, _, _, _, _)
\* try block from its k-th completion call on, up to the next request sent
RunTry(d, k, b, lg, ak, wrote) ==
  LET seq == TrySeq(d, UserId(b))
  IN  IF k > Len(seq) THEN [unit |-> [pc |-> "done", k |-> k, d |-> d, wrote |-> wrote], log |-> lg]
      ELSE IF PreThrows THEN RunCatch(d, <<"no_app_id">>, b, lg, ak, wrote)
      ELSE IF ~Addressable(b) THEN RunTry(d, k + 1, b, lg, ak, wrote)
      ELSE [unit |-> [pc |-> "try", k |-> k, d |-> d, wrote |-> wrote],
            log |-> Append(lg, CompletionEvent(seq[k], b, ak))]

(***************************************************************************)
(* BackendGateway writes                                                   *)
(***************************************************************************)
WriteApi(d) == IF d.flow = "milestone" THEN "completeActiveMilestone" ELSE "postProgress"

WriteEvent(d, b, ev, ak) ==
  [Event(WriteApi(d), ev) EXCEPT !.base = getBaseUrl, !.projectId = d.projectId, !.title = d.title,
                                 !.description = d.description, !.userId = UserId(b), !.acked = ak]

\* the credential check in front of a write
Misconfigured ==
  IF rev = "part_002" THEN ~config.serviceBotToken \/ ~config.backendUrl ELSE ~config.serviceBotToken

\* Phase 2 from its start up to the first request sent
StartBackend(d, b, lg, ak) ==
  IF d.flow = "no_change" THEN RunTry(d, 1, b, lg, ak, "none")
  ELSE LET called == Append(lg, WriteEvent(d, b, "call", ak))
       IN  IF Misconfigured THEN RunCatch(d, <<"misconfigured">>, b, called, ak, "none")
           ELSE [unit |-> [pc |-> "backend", k |-> 0, d |-> d, wrote |-> "none"],
                 log |-> Append(called, WriteEvent(d, b, "http", ak))]

(***************************************************************************)
(* Risk scan and GitHub webhook: the state before any request               *)
(***************************************************************************)
\* the requests to the risk-scan endpoint that may be in progress at once
Scans == {"s1", "s2"}

\* the result of checkGithubActivity before any check
NoCheck ==
  [ok |-> FALSE, reason |-> "none", commitActivity |-> FALSE, pullActivity |-> FALSE,
   lastCommit |-> <<>>, lastMergedPr |-> <<>>]

\* a risk-scan request not yet received: the handler's locals and what it
\* has done to the database so far
NoScan ==
  [pc |-> "idle", method |-> "none", auth |-> <<>>, since |-> 0, idx |-> 0, rows |-> <<>>,
   discordCount |-> 0, normRepo |-> <<>>, repo_check |-> "none", gh |-> NoCheck,
   results |-> <<>>, status |-> 0, reads |-> 0, writes |-> 0]

\* a webhook request not yet received
NoHook ==
  [pc |-> "idle", sig |-> <<>>, event |-> <<>>, body |-> <<>>, projectId |-> 0, k |-> 0,
   status |-> 0, outcome |-> "none", reads |-> 0, writes |-> 0]

\* neither endpoint is deployed

ActivityIdle ==
  /\ env = [route |-> "none", serviceBotToken |-> <<>>, VERCEL |-> FALSE, GITHUB_WEBHOOK_SECRET |-> <<>>]
  /\ projects_table = <<>>
  /\ activity_logs = <<>>
  /\ clock = 0
  /\ scan = [s \in Scans |-> NoScan]
  /\ hook = NoHook

(***************************************************************************)
(* State machine                                                           *)
(***************************************************************************)
Init ==
  /\ rev \in Revisions
  /\ config \in Configs
  /\ DEBUG_TO_DISCORD \in BOOLEAN
  /\ rev \in {"part_001", "part_002"} => ~DEBUG_TO_DISCORD
  /\ live = {"i1"}
  /\ req = [i \in Ids |-> NoRequest]
  /\ pc = [i \in Ids |-> "idle"]
  /\ parsed = [i \in Ids |-> FALSE]
  /\ resp = [i \in Ids |-> NoResponse]
  /\ unit = [i \in Ids |-> NoUnit]
  /\ log = [i \in Ids |-> <<>>]
  /\ ActivityIdle

\* the platform posts an interaction
Receive(i) ==
  /\ i \in live
  /\ pc[i] = "idle"
  /\ \E b \in Bodies(i) : \E h \in Headers(b) :
       req' = [req EXCEPT ![i] = [sig |-> h.sig, ts |-> h.ts, body |-> b]]
  /\ pc' = [pc EXCEPT ![i] = "received"]
  /\ UNCHANGED <<activityVars, rev, config, DEBUG_TO_DISCORD, live, parsed, resp, unit, log>>

\* RejectUnverified with JSON.parse(raw) moved in front of the check
RejectUnverifiedAfterParse(i) ==
  /\ pc[i] = "received"
  /\ ~verifySignature(req[i])
  /\ parsed' = [parsed EXCEPT ![i] = TRUE]
  /\ resp' = [resp EXCEPT ![i] = BadSignature]
  /\ pc' = [pc EXCEPT ![i] = "responded"]
  /\ UNCHANGED <<activityVars, rev, config, DEBUG_TO_DISCORD, live, req, unit, log>>

\* if (!verifySignature(req, raw)) return 401
RejectUnverified(i) ==
  /\ pc[i] = "received"
  /\ ~verifySignature(req[i])
  /\ resp' = [resp EXCEPT ![i] = BadSignature]
  /\ pc' = [pc EXCEPT ![i] = "responded"]
  /\ UNCHANGED <<activityVars, rev, config, DEBUG_TO_DISCORD, live, req, parsed, unit, log>>

\* a branch that returns its Response without any outbound call
RespondImmediately(i) ==
  /\ pc[i] = "received"
  /\ verifySignature(req[i])
  /\ Route(req[i].body).k = "respond"
  /\ parsed' = [parsed EXCEPT ![i] = TRUE]
  /\ resp' = [resp EXCEPT ![i] = Route(req[i].body).resp]
  /\ pc' = [pc EXCEPT ![i] = "responded"]
  /\ UNCHANGED <<activityVars, rev, config, DEBUG_TO_DISCORD, live, req, unit, log>>

\* an exception leaves POST: the promise it returned rejects, no Response
HandlerThrows(i) ==
  /\ pc[i] = "received"
  /\ verifySignature(req[i])
  /\ Route(req[i].body).k = "throw"
  /\ parsed' = [parsed EXCEPT ![i] = TRUE]
  /\ pc' = [pc EXCEPT ![i] = "threw"]
  /\ UNCHANGED <<activityVars, rev, config, DEBUG_TO_DISCORD, live, req, resp, unit, log>>

\* await getAssignedProjects(userId, base)
StartGetAssignedProjects(i) ==
  /\ pc[i] = "received"
  /\ verifySignature(req[i])
  /\ Route(req[i].body).k = "projects"
  /\ parsed' = [parsed EXCEPT ![i] = TRUE]
  /\ LET called == [Event("getAssignedProjects", "call") EXCEPT
                      !.base = getBaseUrl, !.userId = UserId(req[i].body)]
         sent == [Event("getAssignedProjects", "http") EXCEPT
                      !.base = getBaseUrl, !.userId = UserId(req[i].body)]
     IN  IF rev = "part_002" /\ ~config.backendUrl
         THEN /\ log' = [log EXCEPT ![i] = Append(@, called)]
              /\ resp' = [resp EXCEPT ![i] = Ephemeral(ErrorText("error_loading_projects", <<"no_backend_url">>))]
              /\ pc' = [pc EXCEPT ![i] = "responded"]
         ELSE /\ log' = [log EXCEPT ![i] = Append(Append(@, called), sent)]
              /\ pc' = [pc EXCEPT ![i] = "projects"]
              /\ UNCHANGED resp
  /\ UNCHANGED <<activityVars, rev, config, DEBUG_TO_DISCORD, live, req, unit>>

\* what the assigned-projects request may come back with
ProjectsOutcomes ==
  { [res |-> r, data |-> "none", projects |-> <<>>] : r \in {"network", "status"} }
  \cup { [res |-> "ok", data |-> x, projects |-> <<>>] : x \in {"object", "invalid"} }
  \cup { [res |-> "ok", data |-> "array", projects |-> l] : l \in ProjectLists \cup LongProjectLists }

\* ProjectsResponse without the test for an empty list
ProjectsResponseEmptyPicker(tag, o) ==
  IF o.res # "ok" THEN Ephemeral(ErrorText("error_loading_projects", <<o.res>>))
  ELSE IF o.data = "invalid" /\ rev \in {"part_001", "part_002"}
       THEN Ephemeral(ErrorText("error_loading_projects", <<"invalid_json">>))
  ELSE Json(CHANNEL_MESSAGE_WITH_SOURCE,
            Msg(IF tag = <<"pick_project_for_progress">> THEN "choose_project_for_update"
                ELSE "choose_project_for_milestone", <<>>),
            EPHEMERAL, buildProjectSelect(tag, o.projects))

\* the Response of a command once getAssignedProjects has settled
ProjectsResponse(tag, o) ==
  IF o.res # "ok" THEN Ephemeral(ErrorText("error_loading_projects", <<o.res>>))
  ELSE IF o.data = "invalid" /\ rev \in {"part_001", "part_002"}
       THEN Ephemeral(ErrorText("error_loading_projects", <<"invalid_json">>))
  ELSE IF o.data # "array" \/ Len(o.projects) = 0
       THEN Ephemeral(Msg("no_projects_assigned", <<>>))
  ELSE Json(CHANNEL_MESSAGE_WITH_SOURCE,
            Msg(IF tag = <<"pick_project_for_progress">> THEN "choose_project_for_update"
                ELSE "choose_project_for_milestone", <<>>),
            EPHEMERAL, buildProjectSelect(tag, o.projects))

\* the assigned-projects request settles: its outcome and the body read
SettleProjects(lg, o) ==
  [lg EXCEPT ![Len(lg)] = [@ EXCEPT !.result = o.res, !.data = o.data, !.projects = o.projects]]

\* the assigned-projects request settles with one of the outcomes and the
\* command returns its Response
ProjectsReturn(i, outcomes) ==
  /\ pc[i] = "projects"
  /\ \E o \in outcomes :
       /\ log' = [log EXCEPT ![i] = SettleProjects(@, o)]
       /\ resp' = [resp EXCEPT ![i] = ProjectsResponse(Route(req[i].body).tag, o)]
  /\ pc' = [pc EXCEPT ![i] = "responded"]
  /\ UNCHANGED <<activityVars, rev, config, DEBUG_TO_DISCORD, live, req, parsed, unit>>

GetAssignedProjectsReturn(i) == ProjectsReturn(i, ProjectsOutcomes)

\* the deferred path is entered: route runs Phase 2 under await, part_000
\* starts it in an async function called on the spot and returns the ack,
\* part_001 and part_002 queue it as a microtask and return the ack
EnterDeferred(i) ==
  /\ pc[i] = "received"
  /\ verifySignature(req[i])
  /\ Route(req[i].body).k = "deferred"
  /\ parsed' = [parsed EXCEPT ![i] = TRUE]
  /\ LET d == Route(req[i].body)
         started == StartBackend(d, req[i].body, log[i], FALSE)
     IN  CASE rev = "route" ->
                /\ unit' = [unit EXCEPT ![i] = started.unit]
                /\ log' = [log EXCEPT ![i] = started.log]
                /\ pc' = [pc EXCEPT ![i] = "awaiting"]
                /\ UNCHANGED resp
           [] rev = "part_000" ->
                /\ unit' = [unit EXCEPT ![i] = started.unit]
                /\ log' = [log EXCEPT ![i] = started.log]
                /\ pc' = [pc EXCEPT ![i] = "responded"]
                /\ resp' = [resp EXCEPT ![i] = JsonType(d.ack)]
           [] rev \in {"part_001", "part_002"} ->
                /\ unit' = [unit EXCEPT ![i] = [pc |-> "queued", k |-> 0, d |-> d, wrote |-> "none"]]
                /\ pc' = [pc EXCEPT ![i] = "responded"]
                /\ resp' = [resp EXCEPT ![i] = JsonType(d.ack)]
                /\ UNCHANGED log
  /\ UNCHANGED <<activityVars, rev, config, DEBUG_TO_DISCORD, live, req>>

\* UnitStart reading the body of whichever request arrived, as if POST kept
\* it in a variable of the module
UnitStartSharedBody(i) ==
  /\ unit[i].pc = "queued"
  /\ \E j \in live :
       /\ pc[j] # "idle"
       /\ LET started == StartBackend(unit[i].d, req[j].body, log[i], pc[i] = "responded")
          IN  /\ unit' = [unit EXCEPT ![i] = started.unit]
              /\ log' = [log EXCEPT ![i] = started.log]
  /\ UNCHANGED <<activityVars, rev, config, DEBUG_TO_DISCORD, live, req, pc, parsed, resp>>

\* the queued microtask runs
UnitStart(i) ==
  /\ unit[i].pc = "queued"
  /\ LET started == StartBackend(unit[i].d, req[i].body, log[i], pc[i] = "responded")
     IN  /\ unit' = [unit EXCEPT ![i] = started.unit]
         /\ log' = [log EXCEPT ![i] = started.log]
  /\ UNCHANGED <<activityVars, rev, config, DEBUG_TO_DISCORD, live, req, pc, parsed, resp>>

\* BackendReturn sending the write a second time after a failure
BackendReturnRetry(i) ==
  /\ unit[i].pc = "backend"
  /\ \E o \in FetchOutcomes :
       LET ak == pc[i] = "responded"
           lg == Settle(log[i], o, ak)
           sent == Len(SelectSeq(log[i], LAMBDA e : e.ev = "http" /\ e.api = WriteApi(unit[i].d)))
           next == IF o = "ok" THEN RunTry(unit[i].d, 1, req[i].body, lg, ak, "ok")
                   ELSE IF sent < 2
                        THEN [unit |-> unit[i],
                              log |-> Append(lg, WriteEvent(unit[i].d, req[i].body, "http", ak))]
                        ELSE RunCatch(unit[i].d, <<o>>, req[i].body, lg, ak, "failed")
       IN  /\ unit' = [unit EXCEPT ![i] = next.unit]
           /\ log' = [log EXCEPT ![i] = next.log]
  /\ UNCHANGED <<activityVars, rev, config, DEBUG_TO_DISCORD, live, req, pc, parsed, resp>>

\* the write request settles; Phase 2 goes on to its next request
BackendReturn(i) ==
  /\ unit[i].pc = "backend"
  /\ \E o \in FetchOutcomes :
       LET ak == pc[i] = "responded"
           lg == Settle(log[i], o, ak)
           next == IF o = "ok" THEN RunTry(unit[i].d, 1, req[i].body, lg, ak, "ok")
                   ELSE RunCatch(unit[i].d, <<o>>, req[i].body, lg, ak, "failed")
       IN  /\ unit' = [unit EXCEPT ![i] = next.unit]
           /\ log' = [log EXCEPT ![i] = next.log]
  /\ UNCHANGED <<activityVars, rev, config, DEBUG_TO_DISCORD, live, req, pc, parsed, resp>>

\* a completion request settles; a rejection in the try block enters the
\* catch block, one in the catch block is swallowed except in part_002
CompletionReturn(i) ==
  /\ unit[i].pc \in {"try", "catch"}
  /\ \E o \in FetchOutcomes :
       LET ak == pc[i] = "responded"
           u == unit[i]
           lg == Settle(log[i], o, ak)
           api == log[i][Len(log[i])].api
           next == IF u.pc = "try"
                   THEN IF Rejects(api, o)
                        THEN RunCatch(u.d, <<api, o>>, req[i].body, lg, ak, u.wrote)
                        ELSE RunTry(u.d, u.k + 1, req[i].body, lg, ak, u.wrote)
                   ELSE [unit |-> [u EXCEPT !.pc = IF Rejects(api, o) /\ rev = "part_002"
                                                   THEN "unhandled" ELSE "done"],
                         log |-> lg]
       IN  /\ unit' = [unit EXCEPT ![i] = next.unit]
           /\ log' = [log EXCEPT ![i] = next.log]
  /\ UNCHANGED <<activityVars, rev, config, DEBUG_TO_DISCORD, live, req, pc, parsed, resp>>

\* route: the try/catch is over, return the deferred ack
ReturnDeferred(i) ==
  /\ pc[i] = "awaiting"
  /\ unit[i].pc = "done"
  /\ resp' = [resp EXCEPT ![i] = JsonType(unit[i].d.ack)]
  /\ pc' = [pc EXCEPT ![i] = "responded"]
  /\ UNCHANGED <<activityVars, rev, config, DEBUG_TO_DISCORD, live, req, parsed, unit, log>>

Next ==
  \E i \in Ids :
    \/ Receive(i)
    \/ RejectUnverified(i)
    \/ RespondImmediately(i)
    \/ HandlerThrows(i)
    \/ StartGetAssignedProjects(i)
    \/ GetAssignedProjectsReturn(i)
    \/ EnterDeferred(i)
    \/ UnitStart(i)
    \/ BackendReturn(i)
    \/ CompletionReturn(i)
    \/ ReturnDeferred(i)

Spec == Init /\ [][Next]_vars

(***************************************************************************)
(* Two interactions handled at the same time by one server process         *)
(***************************************************************************)
\* the two interactions differ in invoker and in project name
ConcInvoker(i) ==
  IF i = "i1" THEN [member |-> <<"m">>, user |-> <<"u">>] ELSE [member |-> Undefined, user |-> <<"u">>]

ConcName(i) == IF i = "i1" THEN <<"A">> ELSE <<"%">>

\* one body of each kind the dispatcher tells apart
ConcBodies(i) ==
  { Body(PING, Undefined, Undefined, Undefined, Undefined, Undefined, DefaultCredentials(i), DefaultInvoker),
    Body(APPLICATION_COMMAND, <<"progress-update">>, Undefined, Undefined, Undefined, Undefined,
         DefaultCredentials(i), ConcInvoker(i)),
    Body(MESSAGE_COMPONENT, Undefined, Undefined, Undefined, Undefined, Undefined,
         DefaultCredentials(i), DefaultInvoker),
    Body(MESSAGE_COMPONENT, Undefined, StatusCustomId(<<"2">>, ConcName(i)), <<"completed">>,
         Undefined, Undefined, DefaultCredentials(i), ConcInvoker(i)),
    Body(MODAL_SUBMIT, Undefined, ModalCustomId(<<"2">>, ConcName(i)), Undefined, <<"T">>, <<"D">>,
         DefaultCredentials(i), ConcInvoker(i)) }

\* requests of Requests(i): each body signed by the platform, and one forged
ConcRequests(i) ==
  { [sig |-> GoodSig(<<"t">>, b), ts |-> <<"t">>, body |-> b] : b \in ConcBodies(i) }
  \cup { [sig |-> ForgedSig(<<"t">>, b), ts |-> <<"t">>, body |-> b] : b \in { c \in ConcBodies(i) : c.type = PING } }

\* a fully reachable backend; the bearer credential and the application id
\* present or absent
ConcConfigs == { c \in Configs : c.discordPublicKey /\ c.backendUrl }

ConcInit ==
  /\ rev \in Revisions
  /\ config \in ConcConfigs
  /\ DEBUG_TO_DISCORD \in BOOLEAN
  /\ rev \in {"part_001", "part_002"} => ~DEBUG_TO_DISCORD
  /\ live = Ids
  /\ req = [i \in Ids |-> NoRequest]
  /\ pc = [i \in Ids |-> "idle"]
  /\ parsed = [i \in Ids |-> FALSE]
  /\ resp = [i \in Ids |-> NoResponse]
  /\ unit = [i \in Ids |-> NoUnit]
  /\ log = [i \in Ids |-> <<>>]
  /\ ActivityIdle

\* a failure, no project, and the one project of the interaction's invoker
ConcProjectsOutcomes(i) ==
  { [res |-> "network", data |-> "none", projects |-> <<>>],
    [res |-> "ok", data |-> "array", projects |-> <<>>],
    [res |-> "ok", data |-> "array", projects |-> << [id |-> <<"2">>, name |-> ConcName(i)] >>] }

GetAssignedProjectsReturnConc(i) == ProjectsReturn(i, ConcProjectsOutcomes(i))

ReceiveConc(i) ==
  /\ i \in live
  /\ pc[i] = "idle"
  /\ \E r \in ConcRequests(i) : req' = [req EXCEPT ![i] = r]
  /\ pc' = [pc EXCEPT ![i] = "received"]
  /\ UNCHANGED <<activityVars, rev, config, DEBUG_TO_DISCORD, live, parsed, resp, unit, log>>

ConcNext ==
  \E i \in Ids :
    \/ ReceiveConc(i)
    \/ RejectUnverified(i)
    \/ RespondImmediately(i)
    \/ HandlerThrows(i)
    \/ StartGetAssignedProjects(i)
    \/ GetAssignedProjectsReturnConc(i)
    \/ EnterDeferred(i)
    \/ UnitStart(i)
    \/ BackendReturn(i)
    \/ CompletionReturn(i)
    \/ ReturnDeferred(i)

ConcSpec == ConcInit /\ [][ConcNext]_vars

(***************************************************************************)
(* Risk scan (app/api/cron/risk-scan/route.ts).  The file holds two        *)
(* revisions: "first" (l.1-214) only classifies, "second" (l.216-606)      *)
(* also copies the latest commit and the latest merged pull request into   *)
(* activity_logs.  env.route fixes which one a behaviour runs.  Time is    *)
(* counted in days.                                                        *)
(***************************************************************************)
\* DAYS_30_MS, in days
DAYS_30_MS == 30

\* isAtLeast30DaysOld(createdAt) at the time now
isAtLeast30DaysOld(createdAt, now) == now - createdAt >= DAYS_30_MS

GithubUrl == "https://github.com/"

\* the repository of a project as owner/name, null (Undefined) when it is
\* neither a github.com URL nor owner/name: r is repo.trim(), IsOwnerName is
\* ^[^/\s]+\/[^/\s]+$ and the URL form may end in ".git" or "/"
normalizeRepo(repo) ==
  IF ~Truthy(repo) THEN Undefined
  ELSE LET ks == { k \in DOMAIN repo : repo[k] # " " }
           r == IF ks = {} THEN <<>>
                ELSE SubSeq(repo, CHOOSE k \in ks : \A j \in ks : k <= j,
                                  CHOOSE k \in ks : \A j \in ks : k >= j)
           IsSegment(x) == x # <<>> /\ x # Undefined /\ \A k \in DOMAIN x : x[k] \notin {"/", " ", GithubUrl}
           IsOwnerName(x) ==
             LET parts == Split(x, <<"/">>)
             IN  Len(parts) = 2 /\ IsSegment(parts[1]) /\ IsSegment(parts[2])
           rest == IF r # <<>> THEN Tail(r) ELSE <<>>
           n == Len(rest)
           cut == IF n > 0 THEN SubSeq(rest, 1, n - 1) ELSE <<>>
       IN  IF r # <<>> /\ Head(r) = GithubUrl /\ n > 0 /\ rest[n] \in {".git", "/"} /\ IsOwnerName(cut)
           THEN cut
           ELSE IF r # <<>> /\ Head(r) = GithubUrl /\ IsOwnerName(rest) THEN rest
           ELSE IF IsOwnerName(r) THEN r
           ELSE Undefined

\* table projects, its rows created 31, 30 or 29 days before the clock starts:
\* one project, or a project with a repository and a younger one without
\* (SELECT ... ORDER BY created_at DESC returns the younger first);
\* github_repo is null, "", owner/name (with white space around it), the URL
\* form, or one of three texts that are no repository
ProjectTables ==
  LET GithubRepos ==
        { Undefined, <<>>, <<"o", "/", "r">>, <<" ", "o", "/", "r", " ">>,
          <<GithubUrl, "o", "/", "r", ".git">>, <<"o">>, <<GithubUrl, "o">>, <<" ">> }
      ProjectRows(id) ==
        { [id |-> id, github_repo |-> g, created_at |-> c] : g \in GithubRepos, c \in {0 - 31, 0 - 30, 0 - 29} }
  IN  { <<p>> : p \in ProjectRows(1) }
      \cup { <<q, p>> : p \in { x \in ProjectRows(1) : x.github_repo = <<"o", "/", "r">> /\ x.created_at = 0 - 31 },
                        q \in { x \in ProjectRows(2) : x.github_repo = Undefined /\ x.created_at > 0 - 31 } }

\* a row of activity_logs; by names the request that inserted it
ActivityRow(projectId, type, source, url, timestamp, by) ==
  [project_id |-> projectId, activity_type |-> type, source |-> source, url |-> url,
   timestamp |-> timestamp, by |-> by]

\* SELECT COUNT(*) ... WHERE project_id = .. AND source = 'discord' AND "timestamp" >= since
getDiscordActivityCount(projectId, since) ==
  Cardinality({ k \in DOMAIN activity_logs :
                  /\ activity_logs[k].project_id = projectId
                  /\ activity_logs[k].source = "discord"
                  /\ activity_logs[k].timestamp >= since })

\* what api.github.com answers for a repository: the commits request
\* ("ok", a non-success status, or a failed fetch) with the latest commit,
\* and the pulls request with the pull request updated last
GithubAnswers ==
  LET CommitAnswers ==
        { <<>> } \cup { << [url |-> u, date |-> d] >> : u \in {Undefined, <<"c1">>}, d \in {0 - 31, 0 - 1} }
      PullAnswers ==
        { <<>> } \cup { << [url |-> <<"m1">>, merged |-> m, date |-> d] >> : m \in BOOLEAN, d \in {0 - 31, 0 - 1} }
  IN  { [commits |-> "ok", commit |-> c, pulls |-> "ok", pull |-> q] : c \in CommitAnswers, q \in PullAnswers }
      \cup { [commits |-> "ok", commit |-> c, pulls |-> "status", pull |-> <<>>] : c \in CommitAnswers }
      \cup { [commits |-> x, commit |-> <<>>, pulls |-> "none", pull |-> <<>>] : x \in {"status", "throw"} }

\* checkGithubActivity(repo, sinceIso) given GitHub's answer
checkGithubActivity(repo, since, a) ==
  IF ~Truthy(repo) \/ \A k \in DOMAIN repo : repo[k] # "/"
  THEN [NoCheck EXCEPT !.reason = "invalid_repo_format"]
  ELSE IF a.commits = "throw" THEN [NoCheck EXCEPT !.reason = "github_error"]
  ELSE IF a.commits = "status" THEN [NoCheck EXCEPT !.reason = "commits_check_failed"]
  ELSE LET commitActivity == a.commit # <<>> /\ a.commit[1].date >= since
           lastCommit == IF env.route = "second" THEN a.commit ELSE <<>>
       IN  IF a.pulls = "status"
           THEN [NoCheck EXCEPT !.reason = "prs_check_failed", !.commitActivity = commitActivity,
                                !.lastCommit = lastCommit]
           ELSE LET merged == a.pull # <<>> /\ a.pull[1].merged
                    pullActivity ==
                      IF env.route = "second" THEN merged /\ a.pull[1].date >= since
                      ELSE a.pull # <<>> /\ a.pull[1].date >= since
                IN  [ok |-> TRUE, reason |-> "none", commitActivity |-> commitActivity,
                     pullActivity |-> pullActivity, lastCommit |-> lastCommit,
                     lastMergedPr |-> IF env.route = "second" /\ merged THEN a.pull ELSE <<>>]

\* activityExists(projectId, activity_type, url)
activityExists(projectId, type, url) ==
  IF ~Truthy(url) THEN FALSE
  ELSE \E k \in DOMAIN activity_logs :
         /\ activity_logs[k].project_id = projectId
         /\ activity_logs[k].activity_type = type
         /\ activity_logs[k].url = url

\* auth.startsWith("Bearer ") ? auth.slice("Bearer ".length) : ""
BearerOf(auth) ==
  IF StartsWith(auth, <<"Bearer", " ">>) THEN SubSeq(auth, 3, Len(auth)) ELSE <<>>

\* POST with the test of the configured token left out
AuthorizedTokenOnly(auth) == BearerOf(auth) = env.serviceBotToken

\* !(!config.serviceBotToken || token !== config.serviceBotToken)
Authorized(auth) == Truthy(env.serviceBotToken) /\ BearerOf(auth) = env.serviceBotToken

\* runRiskScanJob up to its first await: since is fixed
StartJob(sc, method) ==
  [sc EXCEPT !.pc = "projects", !.method = method, !.since = clock - DAYS_30_MS]

\* the loop enters its next project, or the job returns and the endpoint
\* answers 200
NextProject(sc) ==
  IF sc.idx < Len(sc.rows)
  THEN [sc EXCEPT !.pc = "discord", !.idx = sc.idx + 1, !.discordCount = 0, !.normRepo = <<>>,
                  !.repo_check = "none", !.gh = NoCheck]
  ELSE [sc EXCEPT !.pc = "responded", !.status = 200]

\* !normRepo || (checked without commit or pull request activity) || invalid || error
noGithubActivity(sc) ==
  \/ ~Truthy(sc.normRepo)
  \/ sc.repo_check = "checked" /\ ~sc.gh.commitActivity /\ ~sc.gh.pullActivity
  \/ sc.repo_check = "invalid"
  \/ sc.repo_check = "error"

\* the entry pushed to results for the project at hand
Result(sc, final) ==
  LET p == sc.rows[sc.idx]
  IN  [projectId |-> p.id, created_at |-> p.created_at, at |-> clock, repo |-> sc.normRepo,
       repo_check |-> sc.repo_check,
       commitActivity |-> sc.repo_check = "checked" /\ sc.gh.commitActivity,
       pullActivity |-> sc.repo_check = "checked" /\ sc.gh.pullActivity,
       hasActivity |-> sc.discordCount > 0,
       final |-> final]

\* classification without the test of the project's age
ClassifyIgnoringAge(sc) ==
  Result(sc, IF ~(sc.discordCount > 0) /\ noGithubActivity(sc) THEN "at_risk" ELSE "active")

\* the project at hand classified now: too new, at risk or active
Classify(sc) ==
  IF ~isAtLeast30DaysOld(sc.rows[sc.idx].created_at, clock)
  THEN Result(sc, "too_new")
  ELSE Result(sc, IF ~(sc.discordCount > 0) /\ noGithubActivity(sc) THEN "at_risk" ELSE "active")

\* results.push(...) and on to the next project
Push(sc) == NextProject([sc EXCEPT !.results = Append(@, Classify(sc))])

\* after the commit has been dealt with: the merged pull request, if any
AfterCommit(sc) ==
  IF sc.gh.lastMergedPr # <<>> /\ Truthy(sc.gh.lastMergedPr[1].url)
  THEN [sc EXCEPT !.pc = "merge_exists"]
  ELSE Push(sc)

\* POST /api/cron/risk-scan; the Authorization header is absent, the token
\* without scheme, another scheme, or the bearer scheme with the token, with
\* another token or with none
PostRequest(s) ==
  /\ scan[s].pc = "idle"
  /\ \E auth \in { <<>>, <<"s">>, <<"Basic", " ", "s">>, <<"Bearer", " ", "s">>, <<"Bearer", " ", "x">>,
                    <<"Bearer", " ">> } :
       scan' = [scan EXCEPT ![s] =
                  IF Authorized(auth) THEN StartJob([@ EXCEPT !.auth = auth], "POST")
                  ELSE [@ EXCEPT !.pc = "responded", !.method = "POST", !.auth = auth, !.status = 401]]
  /\ UNCHANGED <<activity_logs, clock>>
  /\ UNCHANGED <<interactionVars, env, projects_table, hook>>

\* GET /api/cron/risk-scan, with or without the header x-vercel-cron: 1
GetRequest(s) ==
  /\ scan[s].pc = "idle"
  /\ \E isCron \in BOOLEAN :
       scan' = [scan EXCEPT ![s] =
                  IF env.VERCEL /\ ~isCron
                  THEN [@ EXCEPT !.pc = "responded", !.method = "GET", !.status = 403]
                  ELSE StartJob(@, "GET")]
  /\ UNCHANGED <<activity_logs, clock>>
  /\ UNCHANGED <<interactionVars, env, projects_table, hook>>

\* SELECT ... FROM projects ORDER BY created_at DESC returns
ReadProjects(s) ==
  /\ scan[s].pc = "projects"
  /\ scan' = [scan EXCEPT ![s] = NextProject([@ EXCEPT !.rows = projects_table, !.reads = @ + 1])]
  /\ UNCHANGED <<activity_logs, clock>>
  /\ UNCHANGED <<interactionVars, env, projects_table, hook>>

\* getDiscordActivityCount returns; the repository is normalised and either
\* the GitHub check starts or the project is classified
DiscordCountReturn(s) ==
  /\ scan[s].pc = "discord"
  /\ LET p == scan[s].rows[scan[s].idx]
         normRepo == normalizeRepo(p.github_repo)
         counted == [scan[s] EXCEPT !.discordCount = getDiscordActivityCount(p.id, scan[s].since),
                                    !.reads = @ + 1, !.normRepo = normRepo]
     IN  scan' = [scan EXCEPT ![s] =
                    IF normRepo = Undefined /\ Truthy(p.github_repo)
                    THEN Push([counted EXCEPT !.repo_check = "invalid",
                                              !.gh = [NoCheck EXCEPT !.reason = "invalid_repo_format"]])
                    ELSE IF Truthy(normRepo) THEN [counted EXCEPT !.pc = "github"]
                    ELSE Push(counted)]
  /\ UNCHANGED <<activity_logs, clock>>
  /\ UNCHANGED <<interactionVars, env, projects_table, hook>>

\* checkGithubActivity returns, GitHub having given one of the answers
GithubReturn(s) ==
  /\ scan[s].pc = "github"
  /\ \E a \in GithubAnswers :
       LET ghRes == checkGithubActivity(scan[s].normRepo, scan[s].since, a)
       IN  scan' = [scan EXCEPT ![s] =
                      IF ~ghRes.ok
                      THEN Push([@ EXCEPT !.repo_check = IF ghRes.reason = "invalid_repo_format"
                                                         THEN "invalid" ELSE "error",
                                          !.gh = [NoCheck EXCEPT !.reason = ghRes.reason]])
                      ELSE IF ghRes.lastCommit # <<>> /\ Truthy(ghRes.lastCommit[1].url)
                      THEN [@ EXCEPT !.repo_check = "checked", !.gh = ghRes, !.pc = "commit_exists"]
                      ELSE AfterCommit([@ EXCEPT !.repo_check = "checked", !.gh = ghRes])]
  /\ UNCHANGED <<activity_logs, clock>>
  /\ UNCHANGED <<interactionVars, env, projects_table, hook>>

\* activityExists(p.id, "commit", url) returns
CommitExistsReturn(s) ==
  /\ scan[s].pc = "commit_exists"
  /\ LET p == scan[s].rows[scan[s].idx]
         already == activityExists(p.id, "commit", scan[s].gh.lastCommit[1].url)
         read == [scan[s] EXCEPT !.reads = @ + 1]
     IN  scan' = [scan EXCEPT ![s] =
                    IF ~already THEN [read EXCEPT !.pc = "commit_insert"] ELSE AfterCommit(read)]
  /\ UNCHANGED <<activity_logs, clock>>
  /\ UNCHANGED <<interactionVars, env, projects_table, hook>>

\* insertActivityLog of the latest commit returns
CommitInsertReturn(s) ==
  /\ scan[s].pc = "commit_insert"
  /\ LET p == scan[s].rows[scan[s].idx]
         c == scan[s].gh.lastCommit[1]
     IN  activity_logs' = Append(activity_logs, ActivityRow(p.id, "commit", "github", c.url, c.date, s))
  /\ scan' = [scan EXCEPT ![s] = AfterCommit([@ EXCEPT !.writes = @ + 1])]
  /\ UNCHANGED clock
  /\ UNCHANGED <<interactionVars, env, projects_table, hook>>

\* activityExists(p.id, "merge", url) returns
MergeExistsReturn(s) ==
  /\ scan[s].pc = "merge_exists"
  /\ LET p == scan[s].rows[scan[s].idx]
         already == activityExists(p.id, "merge", scan[s].gh.lastMergedPr[1].url)
         read == [scan[s] EXCEPT !.reads = @ + 1]
     IN  scan' = [scan EXCEPT ![s] =
                    IF ~already THEN [read EXCEPT !.pc = "merge_insert"] ELSE Push(read)]
  /\ UNCHANGED <<activity_logs, clock>>
  /\ UNCHANGED <<interactionVars, env, projects_table, hook>>

\* insertActivityLog of the latest merged pull request returns
MergeInsertReturn(s) ==
  /\ scan[s].pc = "merge_insert"
  /\ LET p == scan[s].rows[scan[s].idx]
         m == scan[s].gh.lastMergedPr[1]
     IN  activity_logs' = Append(activity_logs, ActivityRow(p.id, "merge", "github", m.url, m.date, s))
  /\ scan' = [scan EXCEPT ![s] = Push([@ EXCEPT !.writes = @ + 1])]
  /\ UNCHANGED clock
  /\ UNCHANGED <<interactionVars, env, projects_table, hook>>

\* a database statement fails: the handler's catch answers 500
ScanFails(s) ==
  /\ scan[s].pc \in {"projects", "discord", "commit_exists", "commit_insert", "merge_exists", "merge_insert"}
  /\ scan' = [scan EXCEPT ![s] = [@ EXCEPT !.pc = "responded", !.status = 500]]
  /\ UNCHANGED <<activity_logs, clock>>
  /\ UNCHANGED <<interactionVars, env, projects_table, hook>>

\* a day passes while a scan is under way
Tick ==
  /\ clock < MaxTicks
  /\ \E s \in Scans : scan[s].pc \notin {"idle", "responded"}
  /\ clock' = clock + 1
  /\ UNCHANGED <<interactionVars, env, projects_table, activity_logs, scan, hook>>

\* the interactions endpoint at rest
InteractionsIdle ==
  /\ rev = "route"
  /\ config = [discordPublicKey |-> FALSE, serviceBotToken |-> FALSE,
               discordAppId |-> Undefined, backendUrl |-> FALSE]
  /\ DEBUG_TO_DISCORD = FALSE
  /\ live = {}
  /\ req = [i \in Ids |-> NoRequest]
  /\ pc = [i \in Ids |-> "idle"]
  /\ parsed = [i \in Ids |-> FALSE]
  /\ resp = [i \in Ids |-> NoResponse]
  /\ unit = [i \in Ids |-> NoUnit]
  /\ log = [i \in Ids |-> <<>>]

\* one request to the risk-scan endpoint, in either revision
ScanInit ==
  /\ InteractionsIdle
  /\ env \in { [route |-> r, serviceBotToken |-> t, VERCEL |-> v, GITHUB_WEBHOOK_SECRET |-> <<>>] :
                 r \in {"first", "second"}, t \in {<<>>, <<"s">>}, v \in BOOLEAN }
  /\ projects_table \in ProjectTables
  /\ activity_logs \in { <<>> } \cup { << ActivityRow(1, "update", "discord", Undefined, t, "seed") >> :
                                           t \in {0 - 31, 0 - 30} }
  /\ clock = 0
  /\ scan = [s \in Scans |-> NoScan]
  /\ hook = NoHook

ScanNext ==
  \/ \E s \in {"s1"} :
       \/ PostRequest(s)
       \/ GetRequest(s)
       \/ ReadProjects(s)
       \/ DiscordCountReturn(s)
       \/ GithubReturn(s)
       \/ CommitExistsReturn(s)
       \/ CommitInsertReturn(s)
       \/ MergeExistsReturn(s)
       \/ MergeInsertReturn(s)
       \/ ScanFails(s)
  \/ Tick

ScanSpec == ScanInit /\ [][ScanNext]_vars

\* two requests to the second revision of the endpoint, which may overlap:
\* one project, 31 days old, with a repository and nothing logged yet
RaceInit ==
  /\ InteractionsIdle
  /\ env = [route |-> "second", serviceBotToken |-> <<"s">>, VERCEL |-> FALSE, GITHUB_WEBHOOK_SECRET |-> <<>>]
  /\ projects_table = << [id |-> 1, github_repo |-> <<"o", "/", "r">>, created_at |-> 0 - 31] >>
  /\ activity_logs = <<>>
  /\ clock = 0
  /\ scan = [s \in Scans |-> NoScan]
  /\ hook = NoHook

RaceNext ==
  \/ \E s \in Scans :
       \/ PostRequest(s)
       \/ GetRequest(s)
       \/ ReadProjects(s)
       \/ DiscordCountReturn(s)
       \/ GithubReturn(s)
       \/ CommitExistsReturn(s)
       \/ CommitInsertReturn(s)
       \/ MergeExistsReturn(s)
       \/ MergeInsertReturn(s)
       \/ ScanFails(s)
  \/ Tick

RaceSpec == RaceInit /\ [][RaceNext]_vars

(***************************************************************************)
(* GitHub webhook                                                          *)
(***************************************************************************)

\* crypto.createHmac("sha256", secret).update(rawBody).digest("hex"), by its
\* contract: a value that names the secret and the body it was made from
Hmac(secret, rawBody) == <<"hmac", secret, rawBody>>

\* verification with the comparison of the two digests left out
verifyGithubSignaturePrefixOnly(rawBody, signatureHeader) ==
  IF ~Truthy(env.GITHUB_WEBHOOK_SECRET) THEN TRUE
  ELSE signatureHeader # <<>> /\ Head(signatureHeader) = <<"sha256=">>

\* verifyGithubSignature(rawBody, signatureHeader): true without a secret;
\* Buffer.from(theirSig, "hex") decodes up to the first text that is not hex
verifyGithubSignature(rawBody, signatureHeader) ==
  IF ~Truthy(env.GITHUB_WEBHOOK_SECRET) THEN TRUE
  ELSE IF signatureHeader = <<>> \/ Head(signatureHeader) # <<"sha256=">> THEN FALSE
  ELSE LET theirSig == Tail(signatureHeader)
           n == CHOOSE m \in 0..Len(theirSig) :
                  /\ \A k \in 1..m : Head(theirSig[k]) = "hmac"
                  /\ m = Len(theirSig) \/ Head(theirSig[m + 1]) # "hmac"
           aBuf == SubSeq(theirSig, 1, n)
           bBuf == << Hmac(env.GITHUB_WEBHOOK_SECRET, rawBody) >>
       IN  Len(aBuf) = Len(bBuf) /\ aBuf = bBuf

\* findProjectIdByRepo(fullName) over the rows of projects: the first row
\* whose normalised repository equals fullName without regard to case
\* (0 for null)
findProjectIdByRepo(fullName) ==
  LET toLowerCase(x) == [k \in DOMAIN x |-> IF x[k] = "O" THEN "o" ELSE IF x[k] = "R" THEN "r" ELSE x[k]]
      hits == { k \in DOMAIN projects_table :
                  LET norm == normalizeRepo(projects_table[k].github_repo)
                  IN  Truthy(norm) /\ toLowerCase(norm) = toLowerCase(fullName) }
  IN  IF hits = {} THEN 0
      ELSE projects_table[CHOOSE k \in hits : \A j \in hits : k <= j].id

\* POST /api/github/webhook up to its first query: the body is text that is
\* no JSON, or a payload with or without repository.full_name, with commits
\* absent (<<>>) or a list (<< list >>), with action and pull_request.merged; the event header is push, pull_request or
\* ping; the signature header is absent, the digest without prefix, the
\* digest, the digest followed by text that is not hex, the digest under
\* another secret, the digest of another body, or the prefix alone
HookRequest ==
  /\ hook.pc = "idle"
  /\ LET Payloads ==
           { [json |-> TRUE, full_name |-> f, commits |-> c, action |-> a, merged |-> m] :
               f \in { Undefined, <<"o", "/", "r">>, <<"O", "/", "R">>, <<"x", "/", "y">> },
               c \in { <<>>, << <<>> >>, << << [url |-> <<"c1">>] >> >>,
                       << << [url |-> <<"c1">>], [url |-> <<"c2">>] >> >> },
               a \in { "closed", "opened" },
               m \in BOOLEAN }
         NoJson == [json |-> FALSE, full_name |-> Undefined, commits |-> <<>>, action |-> "none",
                    merged |-> FALSE]
         Replayed == [json |-> TRUE, full_name |-> <<"o", "/", "r">>, commits |-> <<>>, action |-> "opened",
                      merged |-> FALSE]
     IN  \E body \in Payloads \cup {NoJson} :
         \E event \in {"push", "pull_request", "ping"} :
         \E sig \in { <<>>,
                      << Hmac(<<"k">>, body) >>,
                      << <<"sha256=">>, Hmac(<<"k">>, body) >>,
                      << <<"sha256=">>, Hmac(<<"k">>, body), <<"zz">> >>,
                      << <<"sha256=">>, Hmac(<<"other">>, body) >>,
                      << <<"sha256=">>, Hmac(<<"k">>, Replayed) >>,
                      << <<"sha256=">> >> } :
           LET received == [hook EXCEPT !.sig = sig, !.event = event, !.body = body]
           IN  hook' =
                 IF ~verifyGithubSignature(body, sig)
                 THEN [received EXCEPT !.pc = "responded", !.status = 401, !.outcome = "invalid_signature"]
                 ELSE IF ~body.json
                 THEN [received EXCEPT !.pc = "responded", !.status = 500, !.outcome = "error"]
                 ELSE IF ~Truthy(body.full_name)
                 THEN [received EXCEPT !.pc = "responded", !.status = 400, !.outcome = "no_repository"]
                 ELSE [received EXCEPT !.pc = "find"]
  /\ UNCHANGED <<interactionVars, env, projects_table, activity_logs, clock, scan>>

\* findProjectIdByRepo returns; the event is dispatched
FindProjectReturn ==
  /\ hook.pc = "find"
  /\ LET projectId == findProjectIdByRepo(hook.body.full_name)
         found == [hook EXCEPT !.projectId = projectId, !.reads = @ + 1]
         commits == IF hook.body.commits # <<>> THEN hook.body.commits[1] ELSE <<>>
     IN  hook' =
           IF projectId = 0
           THEN [found EXCEPT !.pc = "responded", !.status = 200, !.outcome = "no_matching_project"]
           ELSE IF hook.event = "push"
           THEN IF commits = <<>>
                THEN [found EXCEPT !.pc = "responded", !.status = 200, !.outcome = "push"]
                ELSE [found EXCEPT !.pc = "insert_commit", !.k = 1]
           ELSE IF hook.event = "pull_request"
           THEN IF hook.body.action = "closed" /\ hook.body.merged
                THEN [found EXCEPT !.pc = "insert_merge"]
                ELSE [found EXCEPT !.pc = "responded", !.status = 200, !.outcome = "pull_request_not_merged"]
           ELSE [found EXCEPT !.pc = "responded", !.status = 200, !.outcome = "unhandled_event"]
  /\ UNCHANGED <<interactionVars, env, projects_table, activity_logs, clock, scan>>

\* insertActivityLog returns: the next commit of a push, or the merged pull
\* request
HookInsertReturn ==
  /\ hook.pc \in {"insert_commit", "insert_merge"}
  /\ IF hook.pc = "insert_commit"
     THEN /\ activity_logs' = Append(activity_logs,
                                ActivityRow(hook.projectId, "commit", "github", hook.body.commits[1][hook.k].url, 0, "hook"))
          /\ hook' = IF hook.k < Len(hook.body.commits[1])
                     THEN [hook EXCEPT !.k = @ + 1, !.writes = @ + 1]
                     ELSE [hook EXCEPT !.pc = "responded", !.status = 200, !.outcome = "push", !.writes = @ + 1]
     ELSE /\ activity_logs' = Append(activity_logs,
                                ActivityRow(hook.projectId, "merge", "github", <<"m1">>, 0, "hook"))
          /\ hook' = [hook EXCEPT !.pc = "responded", !.status = 200, !.outcome = "pull_request_merged",
                                  !.writes = @ + 1]
  /\ UNCHANGED <<interactionVars, env, projects_table, clock, scan>>

\* a database statement fails: the handler's catch answers 500
HookFails ==
  /\ hook.pc \in {"find", "insert_commit", "insert_merge"}
  /\ hook' = [hook EXCEPT !.pc = "responded", !.status = 500, !.outcome = "error"]
  /\ UNCHANGED <<interactionVars, env, projects_table, activity_logs, clock, scan>>

\* one delivery to the webhook, with and without a secret configured
HookInit ==
  /\ InteractionsIdle
  /\ env \in { [route |-> "webhook", serviceBotToken |-> <<>>, VERCEL |-> FALSE, GITHUB_WEBHOOK_SECRET |-> k] :
                 k \in {<<>>, <<"k">>} }
  /\ projects_table \in ProjectTables
  /\ activity_logs = <<>>
  /\ clock = 0
  /\ scan = [s \in Scans |-> NoScan]
  /\ hook = NoHook

HookNext ==
  \/ HookRequest
  \/ FindProjectReturn
  \/ HookInsertReturn
  \/ HookFails

HookSpec == HookInit /\ [][HookNext]_vars

(***************************************************************************)
(* Vocabulary of the properties                                            *)
(***************************************************************************)
CallbackKinds == {PONG, CHANNEL_MESSAGE_WITH_SOURCE, DEFERRED_CHANNEL_MESSAGE_WITH_SOURCE,
                  DEFERRED_UPDATE_MESSAGE, UPDATE_MESSAGE, MODAL}

\* the handler of i has ended, with a Response or by throwing
Ended(i) == pc[i] \in {"responded", "threw"}

\* nothing of i is running any more
Quiet(i) == Ended(i) /\ unit[i].pc \in {"none", "done", "unhandled"}

Arrived(i) == pc[i] # "idle"

Accepted(i) == Arrived(i) /\ verifySignature(req[i])

IsStatusAction(b) ==
  b.type = MESSAGE_COMPONENT /\ b.custom_id # Undefined /\ StartsWith(b.custom_id, <<"set_status", ":">>)

IsCompletedChoice(b) == IsStatusAction(b) /\ b.value = <<"completed">>

IsProgressModal(b) ==
  b.type = MODAL_SUBMIT /\ b.custom_id # Undefined /\ StartsWith(b.custom_id, <<"progress_modal", ":">>)

Entries(i, P(_)) == { k \in DOMAIN log[i] : P(log[i][k]) }

IsWriteCall(e) == e.ev = "call" /\ e.api \in {"completeActiveMilestone", "postProgress"}
IsWriteRequest(e) == e.ev = "http" /\ e.api \in {"completeActiveMilestone", "postProgress"}
IsBackendRequest(e) == e.ev = "http" /\ e.api \in {"getAssignedProjects", "completeActiveMilestone", "postProgress"}
IsCompletion(e) == e.ev = "http" /\ e.api \in {"followup", "edit"}

SuccessTexts == {"milestone_marked_completed_by", "done_milestone_marked_completed",
                 "recent_update_from", "posted_a_recent_update_to", "update_posted"}
ErrorTexts == {"failed_to_update_milestone", "failed_to_post_update"}

IsSuccessMessage(e) == IsCompletion(e) /\ e.content.t \in SuccessTexts
IsErrorMessage(e) == IsCompletion(e) /\ e.content.t \in ErrorTexts

(***************************************************************************)
(* Properties                                                              *)
(***************************************************************************)
\* C1: every signature-verified interaction, whatever its kind, tag or data
\* shape (a component action or modal submission without custom_id
\* included), ends with a Response whose type is one of the six callback
\* kinds; the handler never ends by throwing.
C1_VerifiedInteractionAnswered ==
  \A i \in Ids :
    Accepted(i) /\ Ended(i) =>
      /\ pc[i] = "responded"
      /\ resp[i].status = 200
      /\ resp[i].type \in CallbackKinds

\* C2: on the two deferred paths (set_status with choice "completed",
\* progress_modal) the handler returns the deferred Response without waiting:
\* no request of the interaction has settled before the Response is returned.
C2_DeferredReturnedWithoutWaiting ==
  \A i \in Ids :
    Accepted(i) /\ (IsCompletedChoice(req[i].body) \/ IsProgressModal(req[i].body)) =>
      \A k \in DOMAIN log[i] :
        log[i][k].ev = "http" /\ log[i][k].result # "pending" => log[i][k].ackedAtEnd

\* C3: no BackendGateway write and no completion call of an interaction is
\* started before the handler has returned that interaction's deferred
\* Response.
C3_Phase2FollowsPhase1 ==
  \A i \in Ids :
    \A k \in DOMAIN log[i] :
      IsWriteRequest(log[i][k]) \/ IsCompletion(log[i][k]) => log[i][k].acked

C5_CompleteActiveMilestoneExactlyOnce ==
  \A i \in Ids :
    Accepted(i) /\ IsCompletedChoice(req[i].body) =>
      LET n == Cardinality(Entries(i, LAMBDA e : e.ev = "call" /\ e.api = "completeActiveMilestone"))
      IN  /\ n <= 1
          /\ Quiet(i) => n = 1

\* C6: for a set_status component action whose chosen value is anything but
\* "completed" (no value included), no BackendGateway call occurs and the
\* Response the handler returns is an in-place update (kind 7) stating that
\* no changes were made.
C6_OtherChoiceChangesNothing ==
  \A i \in Ids :
    Accepted(i) /\ IsStatusAction(req[i].body) /\ ~IsCompletedChoice(req[i].body) =>
      /\ Entries(i, LAMBDA e : IsBackendRequest(e) \/ IsWriteCall(e)) = {}
      /\ pc[i] = "responded" =>
           /\ resp[i].type = UPDATE_MESSAGE
           /\ resp[i].content.t = "no_changes_were_made"

\* C7: for a modal submission progress_modal:<id>:<name>, postProgressUpdate
\* is invoked exactly once, with (id, the submitted title, the submitted
\* description or "" when empty or absent, the invoker id); when the write
\* succeeded, the completion messages sent for the interaction acknowledge
\* success.
C7_ProgressPostedOnceAndAcknowledged ==
  \A i \in Ids :
    Accepted(i) /\ IsProgressModal(req[i].body) =>
      LET b == req[i].body
          calls == Entries(i, LAMBDA e : e.ev = "call" /\ e.api = "postProgress")
      IN  /\ Cardinality(calls) <= 1
          /\ Quiet(i) => Cardinality(calls) = 1
          /\ \A k \in calls :
               /\ log[i][k].projectId = Split(b.custom_id, <<":">>)[2]
               /\ log[i][k].title = (IF b.title = Undefined THEN <<>> ELSE b.title)
               /\ log[i][k].description = (IF b.description = Undefined THEN <<>> ELSE b.description)
               /\ log[i][k].userId =
                    (IF b.member # Undefined THEN b.member ELSE IF b.user # Undefined THEN b.user ELSE <<>>)
          /\ unit[i].wrote = "ok" =>
               \A k \in Entries(i, IsCompletion) : IsSuccessMessage(log[i][k])

\* C8: once the deferred path is entered, the only value the handler returns
\* is the deferred Response: kind 6 for a set_status component action, kind 5
\* for a progress_modal submission, whether the backend call succeeds or
\* fails.
C8_DeferredPathReturnsDeferredKind ==
  \A i \in Ids :
    unit[i].pc # "none" =>
      /\ pc[i] # "threw"
      /\ pc[i] = "responded" =>
           /\ IsStatusAction(req[i].body) \/ IsProgressModal(req[i].body)
           /\ IsStatusAction(req[i].body) => resp[i] = JsonType(DEFERRED_UPDATE_MESSAGE)
           /\ IsProgressModal(req[i].body) => resp[i] = JsonType(DEFERRED_CHANNEL_MESSAGE_WITH_SOURCE)

C8_Witness ==
  \E i \in Ids :
    /\ pc[i] = "responded"
    /\ IsProgressModal(req[i].body)
    /\ unit[i].pc = "done"
    /\ unit[i].wrote = "failed"
    /\ resp[i].type = DEFERRED_CHANNEL_MESSAGE_WITH_SOURCE

\* C9: in Phase 2, once the single BackendGateway call has finished and the
\* unit is over, its outcome has been reported through a completion call (of
\* an interaction that carries a token and for which an application id is at
\* hand): a success message when the call succeeded, an error message when it
\* failed; and a success message is never sent unless the call has succeeded.
C9_OutcomeReported ==
  \A i \in Ids :
    LET b == req[i].body
    IN  /\ \A k \in Entries(i, IsSuccessMessage) : unit[i].wrote = "ok"
        /\ /\ unit[i].pc \in {"done", "unhandled"}
           /\ Truthy(b.token)
           /\ Truthy(b.application_id) \/ Truthy(config.discordAppId)
           =>
           /\ unit[i].wrote = "ok" => Entries(i, IsSuccessMessage) # {}
           /\ unit[i].wrote = "failed" => Entries(i, IsErrorMessage) # {}

\* C10: a failure while sending a completion call is swallowed: it never
\* changes the Response returned for the interaction, never turns the request
\* into an error, and never escapes the Phase 2 unit as an unhandled error,
\* also when the failing call is the one that reports an earlier error.
C10_CompletionFailureSwallowed ==
  \A i \in Ids :
    /\ unit[i].pc # "unhandled"
    /\ unit[i].pc # "none" /\ Ended(i) =>
         /\ pc[i] = "responded"
         /\ resp[i] \in {JsonType(DEFERRED_UPDATE_MESSAGE), JsonType(DEFERRED_CHANNEL_MESSAGE_WITH_SOURCE)}

\* two log entries are the same request: same endpoint, same address, same
\* payload
SameRequest(e, f) ==
  /\ e.ev = "http" /\ f.ev = "http"
  /\ e.api = f.api /\ e.base = f.base /\ e.projectId = f.projectId
  /\ e.title = f.title /\ e.description = f.description /\ e.userId = f.userId
  /\ e.appId = f.appId /\ e.token = f.token /\ e.content = f.content /\ e.flags = f.flags

\* C11: no outbound call is retried: while handling one interaction each
\* BackendGateway operation is entered at most once and at most one
\* BackendGateway request is sent, and no request (a completion call
\* included) is ever sent a second time, also after it failed.
C11_NoOutboundCallRetried ==
  \A i \in Ids :
    /\ Cardinality(Entries(i, IsBackendRequest)) <= 1
    /\ Cardinality(Entries(i, LAMBDA e : e.ev = "call")) <= 1
    /\ \A k, l \in DOMAIN log[i] : k < l => ~SameRequest(log[i][k], log[i][l])

C11_Witness ==
  \E i \in Ids :
    /\ Quiet(i)
    /\ unit[i].wrote = "failed"
    /\ Cardinality(Entries(i, IsWriteRequest)) = 1
    /\ \E k \in Entries(i, IsWriteRequest) : log[i][k].result = "network"
    /\ Entries(i, IsErrorMessage) # {}

\* a name without the delimiter character of the identifiers
DelimiterFree(n) == \A k \in DOMAIN n : n[k] # ":"

\* the project a component action or modal submission carries was put there
\* by the wizard from (id, n)
PickCarries(b, id, n) ==
  /\ b.type = MESSAGE_COMPONENT
  /\ b.custom_id \in {<<"pick_project_for_progress">>, <<"pick_project_for_milestone">>}
  /\ b.value = optionValue(id, n)

\* C12: wizard-state encoding is a lossless round trip: for every id and
\* every delimiter-free name (the empty name included),
\* parseOptionValue(optionValue(id, name)) is (id, name) and the next step of
\* the wizard is built from (id, name); the id and name the handler decodes
\* from the identifier set_status:<id>:<name> or progress_modal:<id>:<name>
\* built from them are id and name.
C12_WizardStateRoundTrip ==
  \A i \in Ids : \A id \in ProjectIds, n \in Names :
    Accepted(i) /\ DelimiterFree(n) =>
      LET b == req[i].body
      IN  /\ PickCarries(b, id, n) =>
                /\ parseOptionValue(b.value) = [id |-> id, name |-> n]
                /\ pc[i] = "responded" =>
                     resp[i].component.custom_id =
                       (IF b.custom_id = <<"pick_project_for_progress">>
                        THEN ModalCustomId(id, n) ELSE StatusCustomId(id, n))
          /\ /\ \/ IsCompletedChoice(b) /\ b.custom_id = StatusCustomId(id, n)
                \/ IsProgressModal(b) /\ b.custom_id = ModalCustomId(id, n)
             /\ unit[i].pc # "none"
             => unit[i].d.projectId = id /\ unit[i].d.projectName = n

\* C13: decoding wizard state never fails fatally: for any selected option
\* value and any identifier beginning with set_status: or progress_modal:
\* (segments missing, id empty, name not valid percent-encoding) the handler
\* ends with a Response and not by throwing; an empty or absent id of a
\* selected value is answered as no selection, and an absent or undecodable
\* name decodes to "Project".
C13_DecodingNeverFatal ==
  \A i \in Ids :
    LET b == req[i].body
        picking == b.type = MESSAGE_COMPONENT
                   /\ b.custom_id \in {<<"pick_project_for_progress">>, <<"pick_project_for_milestone">>}
        nameOf(cid) == At(Split(cid, <<":">>), 3)
    IN  /\ Accepted(i) /\ (picking \/ IsStatusAction(b) \/ IsProgressModal(b)) =>
             /\ pc[i] # "threw"
             /\ parseOptionValue(b.value).name # URIError
        /\ ( /\ Accepted(i) /\ picking /\ pc[i] = "responded"
             /\ (b.value = Undefined \/ At(Split(b.value, <<":", ":">>), 1) = <<>>) )
           => resp[i].content.t = "no_project_selected"
        /\ ( /\ Accepted(i) /\ (IsCompletedChoice(b) \/ IsProgressModal(b)) /\ Quiet(i)
             /\ (~Truthy(nameOf(b.custom_id)) \/ decodeURIComponent(nameOf(b.custom_id)) = URIError) )
           => unit[i].d.projectName = Project

\* the handling of i has entered a deferred path that performs a write
OnWritePath(i) == unit[i].pc # "none" /\ unit[i].d.flow \in {"milestone", "progress"}

\* a completion call of i can be addressed: the interaction carries a token
\* and an application id is at hand, in the interaction or the configuration
Reportable(i) ==
  /\ Truthy(req[i].body.token)
  /\ Truthy(req[i].body.application_id) \/ Truthy(config.discordAppId)

\* C14: when the service bot token is not configured, a write path
\* (completeActiveMilestone or postProgress) sends no HTTP write request and
\* no success message, and once the handling is over the user has been sent
\* an error message (for an interaction whose completion call can be
\* addressed): the interaction is never left without any report.
C14_MissingBearerReported ==
  \A i \in Ids :
    OnWritePath(i) /\ ~config.serviceBotToken =>
      /\ Entries(i, IsWriteRequest) = {}
      /\ Entries(i, IsSuccessMessage) = {}
      /\ unit[i].pc \notin {"queued", "backend"} /\ Reportable(i) =>
           Entries(i, IsErrorMessage) # {}

\* every request sent is answered or fails, a queued microtask is run, and a
\* handler that can go on does
Fairness ==
  \A i \in Ids :
    /\ WF_vars(UnitStart(i))
    /\ WF_vars(BackendReturn(i))
    /\ WF_vars(CompletionReturn(i))
    /\ WF_vars(GetAssignedProjectsReturn(i))
    /\ WF_vars(ReturnDeferred(i))

LiveSpec == Init /\ [][Next]_vars /\ Fairness

\* Phase 2 of i is over: the BackendGateway operation of a write path has
\* been entered and, where a completion call can be addressed, one was sent
Phase2Finished(i) ==
  /\ Quiet(i)
  /\ OnWritePath(i) => Entries(i, IsWriteCall) # {}
  /\ Reportable(i) => Entries(i, IsCompletion) # {}

\* C15: once a deferred Response has been returned for an interaction, its
\* Phase 2 eventually finishes, provided the outbound calls return: the
\* BackendGateway call is made and a completion call reporting success or
\* failure is attempted for that interaction.
C15_Phase2EventuallyFinishes ==
  \A i \in Ids : (pc[i] = "responded" /\ unit[i].pc # "none") ~> Phase2Finished(i)

\* everything the handling of i holds
Own(i) == <<req[i], pc[i], parsed[i], resp[i], unit[i], log[i]>>

\* the Responses the request of i can be answered with when handled alone
SoloResponses(i) ==
  LET out == Route(req[i].body)
  IN  IF ~verifySignature(req[i]) THEN {BadSignature}
      ELSE CASE out.k = "respond" -> {out.resp}
             [] out.k = "projects" ->
                  { ProjectsResponse(out.tag, o) : o \in ProjectsOutcomes \cup ConcProjectsOutcomes(i) }
                  \cup { Ephemeral(ErrorText("error_loading_projects", <<"no_backend_url">>)) }
             [] out.k = "deferred" -> {JsonType(out.ack)}
             [] OTHER -> {}

\* a logged call of i is made of the data of the request of i
OwnEntry(i, e) ==
  LET b == req[i].body
      out == Route(b)
      uid == UserId(b)
  IN  /\ e.api = "getAssignedProjects" => out.k = "projects" /\ e.userId = uid
      /\ e.api \in {"completeActiveMilestone", "postProgress"} =>
           /\ out.k = "deferred"
           /\ e.api = WriteApi(out)
           /\ e.userId = uid
           /\ e.projectId = out.projectId /\ e.title = out.title /\ e.description = out.description
      /\ e.api \in {"followup", "edit"} =>
           /\ out.k = "deferred"
           /\ e.token = b.token
           /\ e.appId = AppIdFor(b)
           /\ \/ \E k \in DOMAIN TrySeq(out, uid) : e.content = TrySeq(out, uid)[k].content
              \/ e.content.t \in ErrorTexts

\* C16: interactions handled concurrently do not affect each other: in every
\* interleaving of the handling of two interactions, the Response of each is
\* one its own request produces when handled alone, every BackendGateway call
\* and completion call of each is made of its own request's data (invoker,
\* project, token, application id, texts); no step of one changes anything
\* of the other, and nothing both read (revision, configuration, debug
\* toggle) is ever written.
C16_InteractionsIndependent ==
  /\ [](\A i \in Ids :
          /\ pc[i] = "responded" => resp[i] \in SoloResponses(i)
          /\ unit[i].pc # "none" => unit[i].d = Route(req[i].body)
          /\ \A k \in DOMAIN log[i] : OwnEntry(i, log[i][k]))
  /\ [][ /\ UNCHANGED <<rev, config, DEBUG_TO_DISCORD>>
         /\ \A i, j \in Ids : i # j /\ Own(i)' # Own(i) => Own(j)' = Own(j) ]_vars

C16_Witness ==
  /\ unit["i1"].pc = "backend"
  /\ unit["i2"].pc \in {"try", "catch"}
  /\ UserId(req["i1"].body) # UserId(req["i2"].body)
  /\ unit["i1"].d.projectName # unit["i2"].d.projectName

IsProjectsCommand(b) ==
  b.type = APPLICATION_COMMAND /\ b.name \in {<<"progress-update">>, <<"milestone-status">>}

\* the assigned-projects request of i has settled and the command has
\* returned: e is its log entry
ProjectsSettled(i) ==
  Accepted(i) /\ IsProjectsCommand(req[i].body) /\ pc[i] = "responded"
  /\ Entries(i, LAMBDA e : e.ev = "http" /\ e.api = "getAssignedProjects") # {}

ProjectsEntry(i) ==
  log[i][CHOOSE k \in DOMAIN log[i] : log[i][k].ev = "http" /\ log[i][k].api = "getAssignedProjects"]

\* C17: a handshake interaction (type 1) is answered immediately with the
\* Response {type: 1} and nothing else: no BackendGateway call, no completion
\* call, no Phase 2.
C17_HandshakeAnswered ==
  \A i \in Ids :
    Accepted(i) /\ req[i].body.type = PING =>
      /\ log[i] = <<>>
      /\ unit[i].pc = "none"
      /\ pc[i] \in {"received", "responded"}
      /\ pc[i] = "responded" => resp[i] = JsonType(PONG)

C17_Witness ==
  \E i \in Ids :
    /\ Accepted(i) /\ req[i].body.type = PING
    /\ pc[i] = "responded"
    /\ resp[i].status = 200 /\ resp[i].type = PONG

\* C18: for command progress-update and for command milestone-status, when
\* getAssignedProjects returns zero projects the Response is an immediate
\* ephemeral message with the text "No projects are assigned to you yet."
\* and without any picker.
C18_NoProjectsMessage ==
  \A i \in Ids :
    ProjectsSettled(i) /\ ProjectsEntry(i).result = "ok"
      /\ ProjectsEntry(i).data = "array" /\ ProjectsEntry(i).projects = <<>> =>
        /\ resp[i].status = 200
        /\ resp[i].type = CHANNEL_MESSAGE_WITH_SOURCE
        /\ resp[i].flags = EPHEMERAL
        /\ resp[i].content = Msg("no_projects_assigned", <<>>)
        /\ resp[i].component = NoComponent

C18_Witness ==
  \E i \in Ids :
    /\ ProjectsSettled(i)
    /\ req[i].body.name = <<"milestone-status">>
    /\ ProjectsEntry(i).data = "array" /\ ProjectsEntry(i).projects = <<>>
    /\ resp[i].content.t = "no_projects_assigned"

\* C19: for a command with at least one assigned project the Response is an
\* immediate message containing a project picker whose identifier is the
\* transition tag of that command: pick_project_for_progress for
\* progress-update, pick_project_for_milestone for milestone-status.
C19_PickerCarriesCommandTag ==
  \A i \in Ids :
    ProjectsSettled(i) /\ ProjectsEntry(i).result = "ok"
      /\ ProjectsEntry(i).data = "array" /\ Len(ProjectsEntry(i).projects) > 0 =>
        /\ resp[i].status = 200
        /\ resp[i].type = CHANNEL_MESSAGE_WITH_SOURCE
        /\ resp[i].component.kind = "project_select"
        /\ Len(resp[i].component.options) > 0
        /\ req[i].body.name = <<"progress-update">> =>
             resp[i].component.custom_id = <<"pick_project_for_progress">>
        /\ req[i].body.name = <<"milestone-status">> =>
             resp[i].component.custom_id = <<"pick_project_for_milestone">>

C19_Witness ==
  \E i \in Ids :
    /\ ProjectsSettled(i)
    /\ req[i].body.name = <<"milestone-status">>
    /\ Len(ProjectsEntry(i).projects) > 0
    /\ resp[i].component.custom_id = <<"pick_project_for_milestone">>

\* C20: when getAssignedProjects fails (network error or non-success status)
\* while handling progress-update or milestone-status, the handler returns an
\* immediate ephemeral error message that carries the failure reason, and
\* the backend is not called again.
C20_ProjectsFailureReported ==
  \A i \in Ids :
    ProjectsSettled(i) /\ ProjectsEntry(i).result \in {"network", "status"} =>
      /\ resp[i].status = 200
      /\ resp[i].type = CHANNEL_MESSAGE_WITH_SOURCE
      /\ resp[i].flags = EPHEMERAL
      /\ resp[i].component = NoComponent
      /\ resp[i].content.t = "error_loading_projects"
      /\ resp[i].content.args = << <<ProjectsEntry(i).result>> >>
      /\ Cardinality(Entries(i, IsBackendRequest)) = 1

IsPick(b, tag) == b.type = MESSAGE_COMPONENT /\ b.custom_id = tag

\* the selected value carries no id: absent, or with an empty first segment
NoId(v) == ~Truthy(v) \/ At(Split(v, <<":", ":">>), 1) = <<>>

\* C21: a component action tagged pick_project_for_milestone with a selected
\* value id::name is answered with an in-place update (kind 7) containing a
\* status picker whose identifier is set_status:<id>:<urlEncodedName>; with
\* no selected id it is answered with an ephemeral error without picker; no
\* call is made and the handler does not throw.
C21_MilestonePickShowsStatusPicker ==
  \A i \in Ids :
    LET b == req[i].body
    IN  Accepted(i) /\ IsPick(b, <<"pick_project_for_milestone">>) =>
          /\ log[i] = <<>> /\ unit[i].pc = "none"
          /\ pc[i] # "threw"
          /\ pc[i] = "responded" =>
               /\ NoId(b.value) => resp[i] = Ephemeral(Msg("no_project_selected", <<>>))
               /\ \A id \in ProjectIds, n \in Names :
                    b.value = optionValue(id, n) =>
                      resp[i] = Json(UPDATE_MESSAGE, Msg("pick_a_status", <<>>), EPHEMERAL,
                                     buildStatusSelect(StatusCustomId(id, n)))

\* C22: a component action tagged pick_project_for_progress is answered with
\* an ephemeral error when the selection carries no id, and otherwise with a
\* modal-request Response (kind 9) whose identifier is
\* progress_modal:<id>:<urlEncodedName>; neither outcome calls the
\* BackendGateway, and the handler does not throw.
C22_ProgressPickOpensModal ==
  \A i \in Ids :
    LET b == req[i].body
    IN  Accepted(i) /\ IsPick(b, <<"pick_project_for_progress">>) =>
          /\ Entries(i, LAMBDA e : IsBackendRequest(e) \/ IsWriteCall(e)) = {}
          /\ Ended(i) =>
               /\ NoId(b.value) => pc[i] = "responded" /\ resp[i] = Ephemeral(Msg("no_project_selected", <<>>))
               /\ ~NoId(b.value) =>
                    /\ pc[i] = "responded"
                    /\ resp[i].type = MODAL
                    /\ resp[i].component.kind = "modal"
                    /\ \A id \in ProjectIds, n \in Names :
                         b.value = optionValue(id, n) =>
                           resp[i].component.custom_id = ModalCustomId(id, n)

\* C23: a command whose name is neither progress-update nor milestone-status
\* (no name included) is answered with the generic ephemeral message
\* "Unknown command." without any BackendGateway call.
C23_UnknownCommandAnswered ==
  \A i \in Ids :
    LET b == req[i].body
    IN  Accepted(i) /\ b.type = APPLICATION_COMMAND /\ ~IsProjectsCommand(b) =>
          /\ log[i] = <<>>
          /\ unit[i].pc = "none"
          /\ pc[i] \in {"received", "responded"}
          /\ pc[i] = "responded" =>
               /\ resp[i].status = 200
               /\ resp[i].type = CHANNEL_MESSAGE_WITH_SOURCE
               /\ resp[i].flags = EPHEMERAL
               /\ resp[i].content = Msg("unknown_command", <<>>)
               /\ resp[i].component = NoComponent

C23_Witness ==
  \E i \in Ids :
    /\ Accepted(i)
    /\ req[i].body.type = APPLICATION_COMMAND /\ req[i].body.name = <<"other-command">>
    /\ pc[i] = "responded"
    /\ resp[i].content.t = "unknown_command"

\* C24: the project picker never carries more than 25 options: it holds
\* exactly the first min(n, 25) of the n projects the backend returned, in the
\* order returned, each with the value optionValue(id, name).
C24_PickerHoldsFirst25 ==
  \A i \in Ids :
    ProjectsSettled(i) /\ resp[i].component.kind = "project_select" =>
      LET ps   == ProjectsEntry(i).projects
          opts == resp[i].component.options
      IN  /\ Len(opts) <= 25
          /\ Len(opts) = (IF Len(ps) < 25 THEN Len(ps) ELSE 25)
          /\ \A k \in 1..Len(opts) : opts[k] = optionValue(ps[k].id, ps[k].name)

C24_Witness ==
  \E i \in Ids :
    /\ ProjectsSettled(i)
    /\ Len(ProjectsEntry(i).projects) > 25
    /\ resp[i].component.kind = "project_select"
    /\ Len(resp[i].component.options) = 25

\* C25: every completion call is addressed with the interaction's own token
\* and its application id (the configured one when the interaction carries
\* none); when the token or both application ids are missing no completion
\* call is sent and the handler still returns its Response.
C25_CompletionAddressedToOwnInteraction ==
  \A i \in Ids :
    LET b == req[i].body
        own == OrElse(b.application_id, config.discordAppId)
    IN  Accepted(i) =>
          /\ \A k \in Entries(i, IsCompletion) :
               /\ Truthy(b.token) /\ log[i][k].token = b.token
               /\ Truthy(own) /\ log[i][k].appId = own
          /\ ~Truthy(b.token) \/ ~Truthy(own) =>
               /\ Entries(i, IsCompletion) = {}
               /\ Route(b).k = "deferred" => pc[i] # "threw"

\* the request lacks a signature header, a timestamp header, or the
\* configuration lacks the public key
Unsigned(i) == req[i].sig = <<>> \/ req[i].ts = <<>> \/ ~config.discordPublicKey

\* C26: verifySignature returns false whenever the signature header is
\* missing or empty, the timestamp header is missing or empty, or no public
\* key is configured, whatever the body: such a request is answered 401.
C26_MissingHeaderOrKeyFails ==
  \A i \in Ids :
    Arrived(i) /\ Unsigned(i) =>
      /\ ~verifySignature(req[i])
      /\ pc[i] = "responded" => resp[i].status = 401

\* a request the platform signed, over the body without timestamp, that comes
\* with an empty timestamp header
C26_Witness ==
  \E i \in Ids :
    /\ pc[i] = "responded"
    /\ req[i].ts = <<>>
    /\ req[i].sig = GoodSig(<<>>, req[i].body)
    /\ config.discordPublicKey
    /\ IsCompletedChoice(req[i].body)
    /\ resp[i] = BadSignature

\* both headers and the public key are there
Signed(i) == ~Unsigned(i)

\* C27: with both headers and the key present, verifySignature returns true
\* exactly when the signature is the detached signature of the timestamp
\* followed by the raw body under the configured public key; a signature made
\* for a timestamp or a body that differs from the ones received is refused.
C27_ValidExactlyForTimestampAndBody ==
  \A i \in Ids :
    Arrived(i) /\ Signed(i) =>
      /\ verifySignature(req[i]) <=> req[i].sig = Sign(PlatformKey, req[i].ts, req[i].body)
      /\ \A ts \in {<<"t">>, <<"u">>}, b \in {req[i].body, Original(req[i].body)} :
           /\ req[i].sig = Sign(PlatformKey, ts, b)
           /\ <<ts, b>> # <<req[i].ts, req[i].body>>
           => /\ ~verifySignature(req[i])
              /\ ~parsed[i]
              /\ pc[i] = "responded" => resp[i] = BadSignature
      /\ pc[i] = "responded" =>
           (resp[i].status = 401 <=> req[i].sig # Sign(PlatformKey, req[i].ts, req[i].body))

\* the platform's signature with the timestamp changed afterwards is refused
C27_Witness ==
  \E i \in Ids :
    /\ pc[i] = "responded"
    /\ Signed(i)
    /\ req[i].ts = <<"u">>
    /\ req[i].sig = Sign(PlatformKey, <<"t">>, req[i].body)
    /\ IsCompletedChoice(req[i].body)
    /\ resp[i] = BadSignature

\* C28: once the backend write of an interaction has succeeded, no completion
\* call of that interaction carries an error message, whatever happens to
\* the completion call that reports the success.
C28_SuccessNeverReportedAsFailure ==
  \A i \in Ids :
    Accepted(i) /\ unit[i].wrote = "ok" => Entries(i, IsErrorMessage) = {}

\* a call of, or a request sent by, one of the two backend write functions
IsWrite(e) == e.api \in {"completeActiveMilestone", "postProgress"}

\* C29: backend writes and completion calls happen only for a set_status
\* action with choice "completed" or a progress_modal submission; every
\* other interaction sends neither.
C29_WritesOnlyOnFinalSteps ==
  \A i \in Ids :
    Accepted(i) /\ Entries(i, LAMBDA e : IsWrite(e) \/ IsCompletion(e)) # {} =>
      IsCompletedChoice(req[i].body) \/ IsProgressModal(req[i].body)

\* the identifier the second step of the wizard puts on its status picker or
\* modal when the option optionValue(id, n) is selected under this tag
SecondStepIdentifier(tag, id, n) ==
  Route(Body(MESSAGE_COMPONENT, Undefined, tag, optionValue(id, n), Undefined, Undefined,
             [token |-> Undefined, application_id |-> Undefined], DefaultInvoker)).resp.component.custom_id

\* the final step of the wizard for the picker option of project (id, n)
FinalStepFor(b, id, n) ==
  \/ IsCompletedChoice(b) /\ b.custom_id = SecondStepIdentifier(<<"pick_project_for_milestone">>, id, n)
  \/ IsProgressModal(b) /\ b.custom_id = SecondStepIdentifier(<<"pick_project_for_progress">>, id, n)

\* C30: the selection is preserved across the steps of the wizard: in the
\* final step that follows the selection of the picker option of project
\* (id, n), the backend write carries id and every success message that shows
\* a project name shows n, also when n contains ':' or '%'.
C30_SelectionPreservedAcrossSteps ==
  \A i \in Ids : \A id \in ProjectIds, n \in Names :
    Accepted(i) /\ FinalStepFor(req[i].body, id, n) =>
      /\ \A k \in Entries(i, IsWrite) : log[i][k].projectId = id
      /\ \A k \in Entries(i, IsSuccessMessage) :
           log[i][k].content.args # <<>> => log[i][k].content.args[1] = n

\* the texts that announce a write that succeeded
Announcements == {"milestone_marked_completed_by", "recent_update_from"}

\* C31: every message Response returned directly (kind 4 or kind 7) has the
\* ephemeral flag set, and the only content sent without the ephemeral flag
\* is the announcement of a write that succeeded.
C31_OnlyAnnouncementsArePublic ==
  \A i \in Ids :
    Accepted(i) =>
      /\ pc[i] = "responded" /\ resp[i].type \in {CHANNEL_MESSAGE_WITH_SOURCE, UPDATE_MESSAGE} =>
           resp[i].flags = EPHEMERAL
      /\ \A k \in Entries(i, IsCompletion) :
           log[i][k].flags # EPHEMERAL =>
             /\ log[i][k].content.t \in Announcements
             /\ unit[i].wrote = "ok"

C31_Witness ==
  \E i \in Ids :
    /\ Accepted(i)
    /\ pc[i] = "responded"
    /\ \E k \in Entries(i, IsCompletion) :
         log[i][k].flags # EPHEMERAL /\ log[i][k].content.t \in Announcements
    /\ \E k \in Entries(i, IsCompletion) : log[i][k].flags = EPHEMERAL

\* the texts shown after a failed backend call
FailureTexts == ErrorTexts \cup {"error_loading_projects"}

\* C32: with DEBUG_INTERACTIONS not set to true the text shown after a failed
\* backend call is fixed: neither the Response nor a completion message
\* carries the error raised, so runs that differ only in that error show the
\* same texts.
C32_FailureTextIndependentOfError ==
  \A i \in Ids :
    /\ Accepted(i) /\ ~DEBUG_TO_DISCORD
    /\ Entries(i, LAMBDA e : IsBackendRequest(e) /\ e.result \in {"network", "status"}) # {}
    =>
      /\ pc[i] = "responded" /\ resp[i].content.t \in FailureTexts => resp[i].content.args = <<>>
      /\ \A k \in Entries(i, IsCompletion) :
           log[i][k].content.t \in FailureTexts => log[i][k].content.args = <<>>

\* the invoker identity of an interaction: member.user.id when present,
\* otherwise user.id, otherwise the empty string
InvokerIdentity(b) ==
  IF Truthy(b.member) THEN b.member ELSE IF Truthy(b.user) THEN b.user ELSE <<>>

\* C33: the caller id of every BackendGateway call of an interaction
\* (discord_id of getAssignedProjects, callerDiscordId of both writes) is the
\* invoker identity of that interaction.
C33_CallerIsInvoker ==
  \A i \in Ids :
    Accepted(i) =>
      \A k \in Entries(i, LAMBDA e : e.api \in {"getAssignedProjects", "completeActiveMilestone", "postProgress"}) :
        log[i][k].userId = InvokerIdentity(req[i].body)

C33_Witness ==
  \E i \in Ids :
    /\ Accepted(i)
    /\ ~Truthy(req[i].body.member) /\ req[i].body.user = <<"u">>
    /\ \E k \in Entries(i, IsBackendRequest) :
         log[i][k].api = "postProgress" /\ log[i][k].userId = <<"u">>

\* the row of table projects a result is about
ProjectOf(r) == CHOOSE p \in { projects_table[k] : k \in DOMAIN projects_table } : p.id = r.projectId

\* a Discord update of the project logged at or after the scan's since
DiscordActivitySince(projectId, since) ==
  \E k \in DOMAIN activity_logs :
    /\ activity_logs[k].project_id = projectId
    /\ activity_logs[k].source = "discord"
    /\ activity_logs[k].timestamp >= since

\* C34: the risk scan gives each project exactly one of too_new, at_risk and
\* active: too_new whenever the project is fewer than 30 days old; otherwise
\* at_risk exactly when it has no Discord activity in the last 30 days and no
\* GitHub activity (no repository set, an invalid repository, a failed check,
\* or a successful check with neither commit nor pull request activity);
\* otherwise active.
C34_RiskClassification ==
  \A s \in Scans :
    /\ Len(scan[s].results) <= Len(scan[s].rows)
    /\ scan[s].status = 200 => Len(scan[s].results) = Len(scan[s].rows)
    /\ \A k \in DOMAIN scan[s].results :
         LET r == scan[s].results[k]
             p == ProjectOf(r)
             young == r.at - p.created_at < 30
             discord == DiscordActivitySince(p.id, scan[s].since)
             noRepo == ~Truthy(p.github_repo)
             github == r.repo_check = "checked" /\ (r.commitActivity \/ r.pullActivity)
         IN  /\ r.projectId = scan[s].rows[k].id
             /\ r.final \in {"too_new", "at_risk", "active"}
             /\ r.repo_check \in {"none", "checked", "invalid", "error"}
             /\ noRepo <=> r.repo_check = "none"
             /\ young <=> r.final = "too_new"
             /\ ~young => (r.final = "at_risk" <=> ~discord /\ ~github)

\* a project old enough, without Discord activity, whose GitHub check failed
\* after a recent commit had been seen, has been classified at_risk
C34_Witness ==
  \E s \in Scans : \E k \in DOMAIN scan[s].results :
    /\ scan[s].results[k].final = "at_risk"
    /\ scan[s].results[k].repo_check = "error"
    /\ scan[s].gh.reason = "prs_check_failed"
    /\ scan[s].results[k].at - scan[s].results[k].created_at = 30

\* a POST whose Authorization header is "Bearer " followed by the configured
\* service bot token, such a token being configured
BearerIsServiceToken(s) ==
  /\ env.serviceBotToken # <<>>
  /\ scan[s].auth = <<"Bearer", " ">> \o env.serviceBotToken

\* C36: the risk-scan POST runs the job only when a service bot token is
\* configured and the request's bearer equals it; every other POST is answered
\* 401 and reads and writes nothing in the database.
C36_PostNeedsServiceToken ==
  \A s \in Scans :
    scan[s].method = "POST" =>
      IF BearerIsServiceToken(s)
      THEN /\ scan[s].status # 401
           /\ scan[s].pc = "responded" => scan[s].status \in {200, 500}
           /\ scan[s].status = 200 => scan[s].reads > 0
      ELSE /\ scan[s].pc = "responded"
           /\ scan[s].status = 401
           /\ scan[s].reads = 0
           /\ scan[s].writes = 0
           /\ scan[s].results = <<>>

\* a POST with the token has run the job to its end and written a row, the
\* deployment having a token
C36_Witness ==
  \E s \in Scans :
    /\ scan[s].method = "POST"
    /\ BearerIsServiceToken(s)
    /\ scan[s].status = 200
    /\ scan[s].writes > 0
    /\ scan[s].results # <<>>

\* two rows of activity_logs inserted by risk scans for the same project,
\* activity type and url
ScanDuplicates ==
  { <<j, k>> \in (DOMAIN activity_logs) \X (DOMAIN activity_logs) :
      /\ j < k
      /\ activity_logs[j].by \in Scans
      /\ activity_logs[k].by \in Scans
      /\ activity_logs[j].project_id = activity_logs[k].project_id
      /\ activity_logs[j].activity_type = activity_logs[k].activity_type
      /\ activity_logs[j].url = activity_logs[k].url }

\* C35: after any number of risk scans, one after the other or overlapping,
\* activity_logs holds at most one scan-inserted row for each project,
\* activity type and url.
C35_OneRowPerActivity == ScanDuplicates = {}

\* the rows of activity_logs the webhook has inserted
HookRows == LET ByHook(r) == r.by = "hook" IN SelectSeq(activity_logs, ByHook)

\* no secret is configured, or the signature header is "sha256=" followed by
\* the digest of this very body under the configured secret (and by nothing
\* that decodes as hex)
SignatureAccepted ==
  \/ env.GITHUB_WEBHOOK_SECRET = <<>>
  \/ /\ Len(hook.sig) >= 2
     /\ hook.sig[1] = <<"sha256=">>
     /\ hook.sig[2] = Hmac(env.GITHUB_WEBHOOK_SECRET, hook.body)
     /\ Len(hook.sig) > 2 => Head(hook.sig[3]) # "hmac"

\* the projects whose repository is the payload's repository.full_name
MappedProjects ==
  { projects_table[k].id : k \in { j \in DOMAIN projects_table :
      /\ hook.body.full_name \in { <<"o", "/", "r">>, <<"O", "/", "R">> }
      /\ normalizeRepo(projects_table[j].github_repo) = <<"o", "/", "r">> } }

\* C37: the GitHub webhook writes to activity_logs only for a request whose
\* signature verifyGithubSignature accepted and whose repository maps to a
\* project, and only for a push (one row per commit) or a pull_request that
\* is closed and merged (one row); every other request inserts nothing.
C37_WebhookWritesOnlyForVerifiedActivity ==
  /\ Len(HookRows) = hook.writes
  /\ HookRows # <<>> =>
       /\ SignatureAccepted
       /\ hook.body.json
       /\ \A j \in DOMAIN HookRows : HookRows[j].project_id \in MappedProjects
       /\ \/ /\ hook.event = "push"
             /\ hook.body.commits # <<>>
             /\ Len(HookRows) <= Len(hook.body.commits[1])
             /\ \A j \in DOMAIN HookRows :
                  /\ HookRows[j].activity_type = "commit"
                  /\ HookRows[j].url = hook.body.commits[1][j].url
          \/ /\ hook.event = "pull_request"
             /\ hook.body.action = "closed"
             /\ hook.body.merged
             /\ Len(HookRows) = 1
             /\ HookRows[1].activity_type = "merge"
  /\ hook.outcome = "push" =>
       Len(HookRows) = IF hook.body.commits = <<>> THEN 0 ELSE Len(hook.body.commits[1])
  /\ hook.outcome = "pull_request_merged" => Len(HookRows) = 1

\* a signed push of two commits to a repository named in other case than the
\* project's has been answered after two rows were inserted, a secret being
\* configured
C37_Witness ==
  /\ env.GITHUB_WEBHOOK_SECRET # <<>>
  /\ hook.sig = << <<"sha256=">>, Hmac(env.GITHUB_WEBHOOK_SECRET, hook.body) >>
  /\ hook.body.full_name = <<"O", "/", "R">>
  /\ hook.outcome = "push"
  /\ Len(HookRows) = 2

====
